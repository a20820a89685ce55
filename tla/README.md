# A TLA+ model of bairrtt

bairrtt fits a causal item-response model. An outer Gibbs sampler written in R
moves person traits, drives two dbarts forests that live in an external
library, and drives one item-parameter sampler per trait; the item samplers are
C++ objects built on the header-only WALNUTS library that the package ships
under `inst/include/walnuts`. Several chains run in forked processes. This
directory holds TLA+ modules of the parts whose correctness is a matter of
order, of state kept in step and of partial failure, the TLC runs that check
them on small instances, and TLAPS proofs of what matters most for every value
of the constants.

Run `tlc -config X.cfg M` for a run and `tlapm M_proofs.tla` for a proof module.
`PROJECT.json` lists the runs, the source lines every definition stands for, the
mutants that show each property can fail, the hazards and the theorems.

## 1. The system

| Part | Source | State it keeps | Operations | Modelled in |
|---|---|---|---|---|
| item-parameter sampler | `src/irt_hmc.cpp`, `inst/include/bairrtt_types.h`, `R/engine.R` | the adapting engine or the frozen one, theta it conditions on, warm-up count, last reported tuning | create, warm-up step, freeze, kept step, report tuning | `IrtSampler`, `ItemSampler` |
| outer Gibbs chain | `R/irt_causal_bart.R` `irt_causal_bart_chain()` | theta, the trait columns inside two dbarts models, their trees, current fits, proposal SD, K item samplers, gamma, stored rows | one scan: K theta moves with installs, proposal-SD adaptation, two BART updates, K item updates, gamma, store | `GibbsChain` |
| seeds and multi-chain runner | `R/irt_causal_bart.R` wrapper, `R/chains.R` | a seed per chain, the children's results | choose or check seeds, fork or loop, collect, refuse partial results | `Chains` |
| dbarts models | external | trees, predictor matrix | `setPredictor`, `updatePredictorPerObservationJointly`, `predict`, `run` | inside `GibbsChain`, from how the chain uses it |
| triple buffer | `walnuts/spsc_buffer.hpp` | three slots, one packed atomic word, a private slot each for writer and reader | write, publish, read_latest | `SpscBuffer` |
| WALNUTS driver and controllers | `walnuts/api.hpp`, `walnuts/adapt.hpp`, `walnuts/sampler.hpp` | worker threads, start latch, stop tokens, one buffer per worker | adapt until converged, build the samplers, sample until R-hat, stop and join | `WalnutsRun` |
| WALNUTS transition | `walnuts/walnuts.hpp`, `walnuts/util.hpp` | orbit spans, selected state, random bits | macro step with reversibility check, doubling, U-turn test, selection | `MacroStep`, `Orbit`, `Transition` |
| adaptation estimators | `adaptive_walnuts.hpp`, `adam.hpp`, `online_moments.hpp` | Adam's averages, discounted moments of draws and scores, macro-step counts | start, observe a transition, build the fixed sampler | `Adaptation` |
| configuration, validation | `config.hpp`, `validate.hpp` | three builders and what they hold | set, compute masses, adapt steps, build (which moves) | `Config`, `Validate` |
| handlers and files | `handlers.hpp` | warm-up and sampling draws, step size and mass of each chain | store, write three binary files | `ChainStore` |
| summary statistics | `summary.hpp` | two containers of chains; the arrays of the effective sample size | mean, variance, quantiles, autocovariance, R-hat, effective sample size | `Summary`, `EffectiveSize`, `Sample` |
| fit assembly, diagnostics | `R/chains.R`, `R/diagnostics.R` | arrays of draws by chains by items | stack, extract, flatten, split, R-hat | `Fit` |
| argument checks in R | `R/engine.R`, `R/irt_causal_bart.R` | none | refuse one argument at a time | not modelled, see section 8 |
| concepts, printing | `concepts.hpp`, stream operators | none | | not modelled: no run-time state |
| 2PL log density | `bairrtt_types.h` `IrtLogpGrad` | | | not modelled: floating point |
| simulation, hooks, bindings | `R/simulate.R`, `R/hooks.R`, `RcppExports` | | | not modelled: no state |

How they interact. `irt_causal_bart()` validates its arguments, picks one seed
per chain and hands each to `run_chains()`, which calls
`irt_causal_bart_chain()` in this process or in forked ones and either returns
every result in the order of the seeds or stops. A chain owns two dbarts models
and K item samplers behind external pointers. In each scan it moves one trait
at a time, installs the new column in both models, re-reads their fits, and
after the last trait runs the models and each item sampler conditional on theta.
The item samplers adapt during burn-in and are frozen at its end. The chains'
results become one `irt_causal_fit`, which `extract()` and `summary()` take apart.

A C++ client of the headers configures a run with three builders, calls
`walnuts()`, which reports to one handler per chain from that chain's thread, and
hands what the handlers stored to the summary statistics or to a file.

What is hard. Nothing inside a chain is concurrent; the difficulty is that one
quantity lives in several places (theta in R, in two dbarts models and in the
functor of each item sampler; the fit in R variables; the tuning in the engine
and in a callback's copy) and that an install can be *refused for some persons*.
The chains are concurrent processes that can raise or die. The WALNUTS
controllers are concurrent threads around a lock-free buffer. Seeds are 32-bit
R integers. Elsewhere the difficulty is arithmetic and indices: estimators that
an infinity or a zero weight spoils for good, arrays that are transposed and
flattened again, a padded transform, loops that end in more than one way.

## 2. Modules

| Module | Role |
|---|---|
| `IrtSampler` | the record behind the external pointer and what each C++ entry point does to it |
| `ItemSampler` | one such object under arbitrary calls from R |
| `TwoPhaseKernel` | abstract: adapt, fix one usable kernel, keep draws from it alone |
| `GibbsChain`, `MCGibbsChain` | one chain: R statements as actions, K item samplers, two forests |
| `Chains` | one `irt_causal_bart()` call: seeds, forked or sequential chains, collection |
| `Fit`, `MCChains` | what becomes of its results: R's arrays, `extract()`, the pooled table, R-hat |
| `AllOrNothing` | abstract: the result of every chain in order, or an error |
| `SpscBuffer` | the triple buffer, word by word |
| `LatestValue` | abstract: a register whose reader may lag but never goes back |
| `WalnutsRun` | one `walnuts()` call: threads, latch, stop tokens, controller, destructors |
| `MacroStep`, `Leapfrog` | the step-halving search and the reversibility check, over an abstract flow; a concrete leapfrog for TLC |
| `Orbit`, `MCOrbit` | doubling, U-turns and selection over the line of macro steps |
| `Transition`, `MCTransition`, `Directions` | one transition: its first macro step taken in full, then the doubling over the line |
| `Doubles` | doubles as exact fractions with infinities and NaN |
| `Validate`, `Config` | the checks of `validate.hpp`; the builders under any order of calls |
| `Adaptation`, `MCAdaptation` | Adam, the discounted moments and the step-count estimator of one chain, from whatever was configured |
| `ChainStore` | the storing handlers and the three binary files, word by word |
| `Summary`, `EffectiveSize` | the statistics as operators; the effective sample size as a state machine |
| `Sample`, `MCSample` | stored draws, their files and their summary together |
| `IrtSampler_proofs`, `ItemSampler_proofs`, `GibbsChain_proofs`, `MacroStep_proofs` | TLAPS proofs about the module they are named for |
| `Threads_proofs` | proofs about `SpscBuffer` and `WalnutsRun` |
| `Draws_proofs` | proofs about `Chains`, `Fit`, `ChainStore` and `EffectiveSize` |
| `WalnutsChain_proofs` | proofs about `Config`, `Adaptation` and `Orbit` |
| `DataLemmas` | induction over numbers, and laws of sequences, folds and fractions that the proofs rest on |

How they compose. `GibbsChain` uses the operators of `IrtSampler` for each of its
K banks, the same operators whose behaviour under any calls `ItemSampler`
checks. Both implement `TwoPhaseKernel`. `Chains` abstracts a chain to its seed
and to whether it returns, raises or dies; `GibbsChain`'s `ChainDelivers` is what
justifies that a chain ends. `WalnutsRun` abstracts each buffer to
`LatestValue`, which `SpscBuffer` is proved to implement. `Orbit` abstracts
macro steps to links of a line, which is what `MacroStep`'s `AcceptedIsEdge`
allows: a link can be walked from both of its ends; `Transition` puts the two
together where they meet, at the first leaf. `Fit` goes on where `Chains`
ends, `Adaptation` starts from what `Config` built, and `Sample` summarises what
`ChainStore` holds. A transition is, in `Adaptation`, the draw, the depth and the
acceptance statistics it returns; the depths are those `Orbit` shows to occur.
The item sampler of the R package uses the same estimators, which `IrtSampler`
reduces to stamps and NaN.

### State and actions against the code

* **`IrtSampler`.** `struct IrtSampler` field by field: the two `std::optional`
  engines, `frozen`, `warmup_iter`, `theta` and the `LatestDraw` handler. Numbers
  that matter only by identity are stamps (step size and mass after i transitions
  are i); NaN is a value of its own because Adam's averages never lose one.
  `Freeze` follows the C++ order: the handler callback first, then the constructor
  that may throw, so a throwing freeze has already changed the report.
* **`GibbsChain`.** `pc` is the place in the loop body of
  `irt_causal_bart_chain()`: `ratio` (propose and accept), `sweep`/`revert` (joint
  install while sampling) or `setResponse`/`setAssignment` (forced installs in
  burn-in), `installed` (re-read the fits), `adapt`, `runResponse`,
  `runAssignment`, `items`, `freeze`, `gamma`, `store`. A trait value is the
  interval it falls in, a forest is a partition into leaves, and a fit, an item
  draw or a gamma draw is the fact that it belongs to the present theta.
  dbarts is external: `setPredictor(forceUpdate = TRUE)` merges empty leaves away,
  the joint install visits persons in order and refuses those that would empty a
  leaf, `run` redraws trees without emptying a leaf. The initial forests are
  assumed to have no empty leaf.
* **`Chains`.** R integers have their width (`MaxInt`), arithmetic out of range
  is `NA`, and `NA` handed to C++ is one more number. `status[c]` is what
  `mclapply()` or `lapply()` holds for chain c.
* **`SpscBuffer`.** `middle`, `back`, `front` and `slots` are the members; the
  packed word keeps its dirty bit as a number above the slot indices. A value has
  `Width` words that are written and copied one at a time. Exchanges are acq_rel
  and so atomic in one order; the relaxed first load may return the clean word
  that the reader's own last exchange left, so `LoadClean` is always possible.
* **`WalnutsRun`.** `worker[c]` is the place in a thread's function, `ctl` that of
  the calling thread, `live` how many locals of `adapt()` or `sample()` have not
  been destroyed. The two phases share their actions; where they differ (stride,
  last publication, what an iteration calls) the action says so. Destroying the
  vector of `std::jthread` is a stop request and a join for each element in turn.
  Agreement between chains (mass, step size, R-hat) is floating point: either
  outcome. The check that there are as many handlers as chains is left out: it
  precedes everything.
* **`MacroStep`.** The two nested loops of `macro_step()` and the loop of
  `reversible()`, one attempt per step. `Flow` is leapfrog, assumed to be undone by
  a momentum flip and to run backward as it runs forward with the momentum
  flipped: true in exact arithmetic, and approximately in floating point.
* **`Orbit`.** One round of the doubling loop is one action; `build_span()`,
  `combine()`, `uturn()` and `build_leaf()` are operators of the same shape as the
  templates. `chance` and `den` carry the exact probability of every member being
  the selected one, so that balance can be checked with integers.
* **`Transition`.** The first doubling asks for one leaf, and whether there is one is
  what the search of `MacroStep` finds: `FirstReturns` is the return from
  `build_leaf()`, `FirstPlaced` restricts the line of `Orbit` to those on which the
  initial point has a neighbour in the direction tossed exactly if the search was
  accepted, and `FirstDoubling` and `LaterDoubling` are the rounds of the loop. The
  macro steps of later rounds are the line's links.
* **`Fit`.** An R array is its data, first index fastest, and its dim, so that
  `matrix()`, `array()`, `unlist()` and `aperm()` are index arithmetic. A draw is a
  number that names its seed, bank, iteration and item. R-hat works on ranks: the
  double of the average rank stands for its normal score, and the square of R-hat
  for R-hat, which leaves apart which values are equal, zero, infinite or `NA`
  (`RHatFlagsStuck` speaks of nothing else). Sums are exact, so a column of equal
  scores has variance zero.
* **`Doubles`, `Validate`.** A double is an exact fraction, an infinity or NaN;
  rounding, overflow to infinity and the sign of zero are left out. Each operator of
  `Validate` is the function of that name.
* **`Config`.** A setter is one action that is refused or assigns. `masses()` from
  gradients and `adapt_step()` call the client's density chain by chain, which may
  throw in between. `build()` moves; a method that then indexes an empty list is
  `undefined`. The step-size search sees the error at each half octave.
* **`Adaptation`.** `Iterate` is `AdaptiveWalnuts::operator()`, in the order of the
  code: Adam observes inside the transition, the position moves, and only then may
  the discount factor be refused. The step size is kept as the direction of its
  last move and whether it is finite; the inverse mass as its square.
  `Observe` evaluates `delta` twice, as the unevaluated Eigen expression does.
* **`ChainStore`.** A file is the sequence of its 8-byte words. `RoundTrip` and
  `WarmupWritten` read it with a reader that knows the format only. The accessors of
  warm-up draws return what the code returns, the draws of sampling.
* **`EffectiveSize`.** One round of the `while` loop is one action; the
  autocorrelations are any of a few even numbers, since the loop's control depends
  on their signs and order only. The floor `1 / log10(N)` is rounded up to the units
  the rest is counted in, which changes no comparison with it (`TauFloor`). Whichever
  entry past its end an array is asked for makes the run `undefined`. A client may
  summarise all chains or the first one alone.

## 3. Runs

| Run | Question | Size |
|---|---|---|
| `item_sampler` | can any order of calls confuse a sampler? | 4 warm-ups, 3 kept draws, 2 thetas |
| `gibbs_chain` | do theta, models, fits, items, gamma and rows stay in step, and does a chain deliver its rows? | 3 persons, 2 traits, 2 intervals, burn-in of 0 or 2, 2 kept scans, fairness |
| `chains` | are streams disjoint and results complete, whatever dies, does a call end, is every number of the fit where its place says, and does R-hat flag stuck chains? | 3 chains, banks of 2 and 3 items, 3 to 5 draws, integers to 4, fairness |
| `spsc_buffer` | are reads whole and in order, and is the last value read in the end? | 3 words, 4 publications, fairness |
| `walnuts_run` | lifetimes, handler order, meaning of a return, and does a call end? | 3 chains, 3 + 2 iterations, stride 2, fairness |
| `walnuts_run_spawn` | finding: a failed spawn hangs the call | 2 chains, fairness |
| `transition` | is a macro step accepted exactly when it can be undone; are orbits shared and balanced? | leapfrog modulo 5, 24 systems, 3 halvings; 8 states, 3 doublings |
| `orbit_depth` | finding: the reported depth exceeds its maximum | 6 states, 2 doublings |
| `adaptation` | can any order of builder calls give a config that is not whole; are the estimators what they are documented to be; what can throw, and when? | 2 chains, 1 dimension, 3 builder calls, 3 transitions of up to 2 statistics |
| `adaptation_variance` | finding: the running variance is not the documented one | the same |
| `sample` | do files read back, do both containers give the defined statistics, does the effective sample size stay inside the chains and above zero? | 1 or 2 chains, 2 dimensions, up to 8 draws |
| `sample_warmup` | finding: warm-up draws are never written | the same |

Safety is checked under the fair specification where the run also checks a
liveness property: fairness takes no finite behaviour away.

Why the bounds are enough.

* Two traits are the fewest for which one trait moves after another and for which
  two banks exist; three persons the fewest for which an early install in a sweep
  decides whether a later one empties a leaf. Burn-ins of 0 and 2 with warm-up
  starts of 0 and 2 cover the empty loop, a start at the first scan and one past
  the end, which the clamp moves into the middle. Two sampling scans are the fewest
  with a scan after a stored row.
* A `MaxInt` of 4 puts seeds at both ends and around zero within reach of one
  another's blocks of streams; the proofs are for any width.
* Banks of two and of three items make every pair of the dimensions (draws, chains,
  items) differ somewhere, so a transposed index shows. Three draws are too few for
  R-hat, four split evenly, five drop a middle one; the traces hold constants, chains
  frozen at one, two and three values, a jump half way and a lone middle draw.
* Three builder calls let a build follow a throw, or a setter a build; a chain starts
  after at most two, so that the estimators' runs stay few. An argument is on each side
  of every bound its check knows. Three iterations take the discount from its initial
  value through two changes; an initial count of 1/2, 1 and 2 is below, at and above
  the number at which the first discount is zero. The statistics are above and below the
  target, and NaN.
* Eight draws are the fewest for which the effective sample size's loop runs twice:
  it stops four lags before the end. Chains of unequal lengths, none, one and two draws
  occur on the way there. One chain of three draws, which only a summary of the first
  chain can be, is where the floor of tau is above 2.
* Four publications overwrite every slot at least once while the reader holds
  another; three words let a read be overtaken in its middle, twice.
* A stride of 2 with 3 iterations leaves a last iteration that only the
  unconditional publication reports. With three chains the first, a middle and the
  last one differ for the polling, spawning and joining loops.
* Three doublings are the fewest for which a new span is combined out of
  combinations. Up to two intervals turn, at most one link is missing and at most
  one state is heavier than the rest: more of them only stop the trajectory sooner.
* Modulo 5 there are trajectories that conserve at once, after one and two
  halvings, and never, and reverse searches that find a coarser level; one
  potential has a position of NaN density.

Deadlock is checked where the system never stops (`ItemSampler`, `SpscBuffer`);
the other modules describe calls that end.

## 4. Fairness

* `GibbsChain` and `Chains`: weak fairness of `Next`. R runs one statement after
  another; a started child goes on until it returns, raises or dies.
* `SpscBuffer`: weak fairness of both threads and strong fairness of `LoadDirty`:
  a store to an atomic becomes visible to other threads in finite time, so a
  reader that keeps looking does not miss the dirty bit for ever.
* `WalnutsRun`: weak fairness of the controller and of each thread, and strong
  fairness of seeing a chain's last publication, which is `SpscBuffer`'s
  `LastValueRead` seen from outside.

No fairness is assumed of an interrupt, of chains ever agreeing, or of the coin.

## 5. What is proved

Each theorem holds for every value of the constants under the named assumptions
of its module. `SentinelAssumption` and `EmptyAssumption` say that the sentinels
are not numbers or records; `ItemSamplerAssumption`, `ChainAssumption`,
`ChainsAssumption`, `SpscAssumption` and `RunAssumption` give the constants their
types and bounds (positive counts, a minimum not above a maximum, a dirty bit
above the slot numbers); `SearchAssumption` says that the numbers of micro steps
double, and `LeapfrogAssumption` what was said of `Flow` above. `StoreAssumption`,
`RhoAssumption`, `FitAssumption`, `ConfigAssumption`, `FieldAssumption` and
`OrbitAssumption` type what the code is given: draws of the right size, autocorrelations
that are even integers, banks and draws of positive number, arguments that are doubles
(infinities and NaN included), vectors of them or counts, a line whose links and turned
intervals are sets of its states. `AdaptationAssumption` says that the draws of a chain
are vectors of finite doubles, since a macro step without a finite error is refused, and
that an acceptance statistic, the exponential of an error's negative magnitude, is finite
or NaN.

* **Item sampler.** `GoodSampler` says that exactly one engine is live, that the
  counts agree, and that a fixed kernel is a reported, usable one. Each entry point
  preserves it (`IrtSampler_proofs`), hence every caller's invariants follow: here
  and in the chain.
* **Chain, in order.** (1) Types, with `SweepInRange` for the sweep's cursor.
  (2) Leaves: forced installs collapse, the sweep asks first. (3) Columns:
  `ColumnsAgree` is not inductive, for in the middle of a sweep the persons not yet
  visited and those refused are *behind* by exactly trait k, and `ColumnsInv` says
  at every label which column each model holds. (4) `PhaseInv`: at every label,
  which banks must be frozen already (`ShouldBeFrozen`), so no guard stops the
  loop. (5) `WarmupInv`: how many transitions each bank has had, from its being
  visited in this scan or not. (6) `RowsInv`: what is fresh at which label, so that
  a row stored at `store` is coherent. (7) The refinement of `TwoPhaseKernel`.
* **Chains.** `SeedsApart` (accepted or default seeds are K apart or `NA`) and
  `StreamsFollowSeeds` (chain c's streams lie in the block of its seed) make the
  blocks disjoint for every integer width; `NA` never becomes a stream because
  `set.seed()` refuses it first, or is the only one above the limit.
* **Triple buffer.** `SlotContents` says what is in the producer's slot, in the
  middle and in the consumer's, and `ReaderKnows` what a reader between load and
  exchange may rely on. From them: exclusive ownership, whole values, and the
  refinement of `LatestValue`, for every width and number of publications.
* **`walnuts()` call.** `StartedInOrder` (threads exist exactly up to the spawn
  cursor), `JoinedBehind` (those behind the join cursor have exited, and the
  threads are destroyed first) and `HandlersInPhase` give `NoDanglingAccess` and
  `HandlerOrder` for any number of chains. On top of it, `SnapshotsLag` (what the
  controller saw, what was published, what was done and the maximum are in that
  order) and `SumBounded` (a sum of n bounded counts reaches n times the bound only if
  each of them does) give `LeavesWhenEnough`; with `HandlersCounted` and
  `PoisonRefused`, `ReturnsComplete`.
* **Macro step.** `SearchedForth` and `SearchedBack` say which levels each search
  has refused. The energies of a trajectory's ends do not depend on where it is
  begun (`ConservesSymmetric`, `TurnedAround`, `Retraced`), so what `reversible()`
  found is what a search from the other end would find: `AcceptedIsEdge`, and its
  converse `RefusedIsNoEdge`. Since an edge is the same from both ends, accepting
  is symmetric.

* **Fit.** A fit is made only when every chain has returned, so every chain has a
  seed and all its draws (`FitInv`). The rest is the arithmetic of places: what
  `unlist()` puts where, that the `aperm()` swaps the last two indices, which element
  of the array of draws a triple (draw, chain, item) is; with names that are all
  different, every number sits where its position or its name says
  (`FitFaithful`). `FitKeepsCall` takes what is proved of `Chains` along to `Fit`.
* **R-hat of a fit.** The k-th of a sorted sequence exists (`KthExists`), so the median
  does; ranks agree exactly where the draws do (`RanksAgree`), distances from the median
  where the draws are equal or mirror images (`FoldsOfThree`). The columns of the split
  chains are the halves (`HalvesTell`). A variance is zero where the column is
  constant and positive elsewhere (`VarianceAboutMean`), so the variance within is zero
  exactly when every half is stuck and the one between exactly when the means agree
  (`RHatBasicIs`). `StuckChainsAreFlagged` puts these together, for ranks and folded
  ranks, over any fit.
* **Files.** `StoreInv` types the store; where a chain's words begin in a file is a
  sum over the chains before it (`SectionsOf`, `SectionStart`), which is what the
  reader adds up too, so `RoundTrip` holds for any number of chains of any lengths. It
  claims nothing of the draws in the warm-up sections, only that they are flagged as
  such and of the length they announce; what they should hold is `WarmupWritten`, which
  is false.
* **Effective sample size.** `EssInv` bounds the lag at each label and says what the
  kept pairs are: none negative, none larger than the one before. `GeyerMonotone`
  follows, and for chains of three draws or more `LagsWithinChain`: the loop, which stops
  four lags early, leaves room for the entry the tail correction writes
  (`FinishTailInv`). The floor is positive (`TauFloorIs`), so the tau is.
* **Summary statistics.** `SummaryInv` says what is handed over: matrices of rows of
  `Dims` numbers, and their sizes, which is what `StoreInv` knows of the handlers.
  `UnifiedHeld` and `SplitHeld` show that the two containers offer the same: the ranges
  of rows are the matrices, the copied columns those of all rows, and the sizes add up
  to where each begins (`SizesAdd`). The rest is about one such container. A sum over all
  draws is the sum of the chains' sums (`PartSums`), deviations from the mean cancel,
  and squares about any number are those about the mean and one more per draw
  (`SquaresMove`), so summed over all pairs they are the pairs' variance (`PairsAre`).
  Sorting is in order and has the k-th order statistic at k (`SortedNumbers`); a quantile
  lies between two neighbours, and what is counted on either side follows
  (`QuantileBetween`, `CountsGrow`). A power of two lies between a number and its double
  and is a good size (`PowerNear`, `PowersGood`), so the padded length is twice a chain's
  or more and whatever a lag wraps around to is zero (`PaddedIs`, `CircularIs`). R-hat is
  one and a ratio of numbers that are not negative (`RatioOverOne`). Together,
  `SummariesAreExact`.
* **Configuration.** `FilledRight` relates a builder to the set of its fields that are
  filled, through moves and a density that throws in the middle of a list:
  `masses()` then lacks at least the last chain's mass. `BuildInv` gives
  `BuiltWhole`.
* **Adaptation.** `AdaptInv` is inductive; none of the five properties is. It carries
  `BuildInv`, since a chain starts from whatever was built, and the two records of
  scalars within what their setters let through (`WarmupInv`, `SamplingInv`). A mean is
  compared to sums over the whole history, so `MeanInv` says that the weight is the sum of
  the weights (`TotalWeight`) and the weight times the mean the weighted sum (`SumOf`);
  one more observation discounts such a sum and adds an entry (`TotalsAre`). That gives
  `MeanIsDocumented`. `SpreadInv` bounds the sum of squared deviations by what the
  documented variance would sum to (`SpreadBound`; the deviation squared is the smaller
  factor) and keeps it positive while the discount is; the documented one, expanded about
  the mean (`TotalSpread`, `SpreadAtMean`), is the bound over the weight. `LostInv` is what
  an initial count of one leaves: a mean equal to the position, a spread of zero, and, since
  such a chain no longer moves, for good. With these, `MassUsable`. For Adam, `Follows` says
  that the uncorrected averages lie between the smallest and largest gradient times one
  minus the decay's power (`Sided`, for the gradients and their squares), over a fold of
  any length (`AdamUnfolds`); dividing by that factor is the correction, hence
  `StepFollowsAcceptance`. `ProgressInv` says that an iteration throws at the first
  discount or never; with `StepInv` (where an infinity or NaN came from) and `Unusable`,
  `AcceptedConfigsRun`.
* **Orbit.** Trees are the intervals of 2^n linked states no half of which has turned;
  a tree of level n is determined by either of its ends (`TreeUnique`), and
  `build_span()` returns a fresh one next to e exactly when there is one, with the
  probability of each state in proportion to its weight (`BuildSpanOutcome`).
  `Reach` is the path of doublings a word of coins leads to. The two halves of spans
  over the same states are the same or swapped (`DoubledHalves`), so the Metropolis
  step keeps balance (`StepBalance`, and by induction `ReachBalance`). A span's size
  gives its level (`PowersApart`), hence `DetailedBalance`. Any state of an orbit
  reaches that orbit by exactly one word of coins (`ReachMate`, `ReachWord`), and where
  the loop ends depends only on the orbit and the next coin (`ReplayedLast`); so the
  words that end in an orbit correspond one to one from state to state
  (`OrbitTransfer`), which is `OrbitShared`. All of it for any line, macro
  steps, U-turns, weights and depth.

Induction over numbers is not one of the prover's methods, and the library's induction
theorems cannot be applied. `DataLemmas` gets it in another form, from
well-foundedness of the subset order on finite sets: a set of numbers that holds zero
and every successor holds all of them (`Induction`), a set that is not empty has a
smallest number (`SmallestNumber`); from these come the recursive functions
(`Iterated`), folds (`FlattenUnfolds`, `SumUnfolds`, `SumFromUnfolds`), the greatest
common divisor (`GcdUnfolds`) and the powers of two. Exact fractions in lowest terms are
shown to be an ordered field (`Closed`, `TimesCommutes`, `OverCancels`, `Positives`,
`AtMostTransitive` and the other laws next to them), which is what lets arithmetic on
`Doubles` be reasoned about without expanding a greatest common divisor.

Only model-checked. The liveness properties (`ChainDelivers`, `LastValueRead` and
`CallEnds` of `Chains` and of `WalnutsRun`): the prover has no rule for fairness. And
the four properties a run refutes. Every invariant and every action property that a
passing run checks is proved for every value of the constants; `StreamsDisjoint` and
`ImplementsAllOrNothing` are proved of `Chains`, which the run `chains` checks as a part
of `Fit`, and `FitKeepsCall` carries them over. The four properties of the run
`transition` are proved of `MacroStep` and of `Orbit` by themselves; that `Transition`
takes the steps of one and then of the other, beginning in a state either may begin in,
is read off its definition and not proved.

## 6. Findings

Shown by a run:

1. When a thread cannot be started, the threads already started wait at the latch
   and never look at their stop tokens; the destructors join them for ever
   (`StopIsObeyed`). Without a spawn failure every stop is obeyed.
2. `OnlineMoments::observe` squares the new deviation instead of multiplying the old
   by the new one, because `auto` keeps an Eigen expression; the running variance is
   smaller than documented (`VarianceIsDocumented`). What it computes still never
   exceeds the documented variance and stays positive (`MassUsable`).
3. `transition_w()` reports a depth of `max_depth + 1` for a trajectory that used
   all its doublings, and the step-count adaptation is told `1 << depth`
   (`DepthWithinMax`).
4. `warmup_draws()` and `warmup_log_probs()` of `ChainStore` return the draws of
   sampling and their log densities. A file written with its warm-up draws holds each
   chain's draws twice and its warm-up draws not at all (`WarmupWritten`). The rest of
   such a file is right (`RoundTrip`).

Read off the code while modelling it, and part of the model where a module is named:

* `seed + (k - 1L)` (`R/irt_causal_bart.R:496`) overflows to `NA` near the largest
  integer; C++ takes every `NA` for the same number, so with three traits or more two
  banks of one chain share a stream (`Chains`). The spacing check of line 338
  overflows for seeds more than the largest integer apart and they are refused by an
  unrelated error (`GapOverflows`).
* A `mass_init_count` below 1 is accepted and makes the adaptation thread throw at its
  first discount; at exactly 1 the first observation replaces all of the past and
  the mass is not a number afterwards. No doublings or no halvings are accepted and
  refused only when the fixed sampler is built (`AcceptedConfigsRun`). `adapt_step()`
  may stop with an infinite step.
* `std::fmax` drops NaN, so a chain whose estimates are NaN counts as agreeing with
  the others, and with `min_iter = 0` the untouched buffer may too; `walnuts()` still
  throws before a poisoned chain samples (`ReturnsComplete`).
* The estimate of the micro steps is documented as a floor and rounded with `lround`
  (`MinMicroSteps`).
* The file versions of `write_step_size` and `write_mass_matrix` do
  not open their stream as binary. The comment of `write_draws` calls the number of
  draws not recoverable, and it is written.
* The effective sample size is said to need three draws per chain
  (`summary.hpp:654`), and checks the number of all draws. With a chain of one draw it
  reads a lag that chain does not have, with one of two the entry past the last pair
  (the steps to `undefined` of `EffectiveSize`); `LagsWithinChain` speaks of chains of
  three or more. Up to five draws the autocorrelations have no say: tau is 2, or the floor
  for one chain of three draws, where that is larger. The pseudo-code of the quantile
  gives 0 at p = 1; the code gives the largest draw.
* R-hat in R: chains frozen at two values, half of the chains at each, give `NA`,
  since the folded draws are constant; `inst/tinytest/test-chains.R:35-38` knows this
  for two chains, while the comment at `R/diagnostics.R:322-326` says `NA` would hide it.
  An odd number's middle draw is dropped, so chains that differ only there count as
  constant (`RHatFlagsStuck`).
* The SIGINT flag of `handlers.hpp` is never reset.

## 7. Hazards

`PROJECT.json` lists them at their lines with the properties that would show each
going wrong; every one has a property, some for the part their notes
name. They fall in five groups: an update that is
refused for some persons (`GibbsChain`); an order of calls the objects do not check
(`ItemSampler`, `Config`, `ChainStore`); processes and threads that end early or are
overtaken (`Chains`, `SpscBuffer`, `WalnutsRun`); a reversibility or a balance that a
plausible-looking trajectory breaks silently (`MacroStep`, `Orbit`, `Transition`); and numbers at a
boundary (`Adaptation`, `EffectiveSize`, `Fit`).

## 8. Not modelled

* The 2PL density and its gradient, and the random numbers: floating-point arithmetic
  with exponentials, out of TLC's reach and checked by finite differences in the
  package's tests.
* Rounding. Leapfrog's drift is outside `LeapfrogAssumption`; `Doubles` is exact. The
  sizes of Adam's moves (powers and logarithms) are left out, their direction is not.
* The momentum draw and the gradients a span caches, in `Orbit`.
* The argument checks of `irt_causal_bart()` and `irt_item_sampler()`: a straight line
  of `stop()` calls before any state exists. What the rest relies on is in the models:
  the clamp of `warmup_start` (`GibbsChain`), the seeds and cores (`Chains`).
* dbarts, beyond what the chain's calls rely on.
* `simulate_*`, the generated bindings, printing, the conversions to the posterior
  package and the concepts: no state, or no run-time behaviour.

* Macro steps past the first in `Transition`: their acceptance is a table of `Orbit`.
* An effective sample size of chains shorter than three draws, beyond the fact that the
  code reads past them; a step size halved down to zero, which takes rounding.

What could follow. A proof that all rounds of `Orbit`, and not the first alone, are what
`MacroStep` does on the line.
