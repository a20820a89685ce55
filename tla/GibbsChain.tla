------------------------------ MODULE GibbsChain ------------------------------
(***************************************************************************)
(* One chain of the outer Gibbs sampler, irt_causal_bart_chain() in        *)
(* R/irt_causal_bart.R, with its K item samplers and its two BART models.  *)
(* The chain is sequential; what can go wrong is that one of the pieces it *)
(* keeps in step (theta, the trait columns inside two dbarts models, their *)
(* trees, the fits the acceptance ratio reads, the item draws, the tuning) *)
(* is left behind by a step that moves another.  Every statement that      *)
(* changes state is an action, in program order, sequenced by pc.          *)
(*                                                                         *)
(* Data is abstracted to what these questions tell apart:                  *)
(*   - a trait value is the interval between cut points it falls in;       *)
(*   - a forest is the partition of the trait space into leaves;           *)
(*   - a fit, an item draw or a gamma draw is the fact that it was         *)
(*     computed from the present theta (and trees), or that it was not;    *)
(*   - theta_sd is the scan that last adapted it.                          *)
(* The two dbarts models are external: they are described by how the chain *)
(* uses them.                                                              *)
(***************************************************************************)
EXTENDS Integers, Sequences, IrtSampler

CONSTANTS
  N,               \* n_persons
  K,               \* n_traits
  Values,          \* the intervals a trait value can fall in
  Trees,           \* the partitions of Point that a forest can be
  HasCovariates,   \* x was supplied, so there is a latent regression
  BurninChoices,   \* values of n_burnin to start from
  SamplingChoices, \* values of n_sampling
  WarmupChoices    \* values of warmup_start the caller may ask for

Person == 1 .. N
Trait  == 1 .. K
Model  == {"response", "assignment"}
Point  == [Trait -> Values]

ASSUME ChainAssumption ==
  /\ N \in Nat \ {0} /\ K \in Nat \ {0}
  /\ HasCovariates \in BOOLEAN
  /\ BurninChoices \subseteq Nat
  /\ SamplingChoices \subseteq Nat \ {0}
  /\ WarmupChoices \subseteq Nat
  /\ None \notin Nat \X [Trait -> Kernel]

VARIABLES
  n_burnin, n_sampling, warmup_start,  \* the validated arguments
  pc,          \* the next statement
  i,           \* i_sample
  k,           \* the trait the current loop is at
  theta,       \* theta[p][t]
  old,         \* theta_old_k
  x,           \* x[m][p][t]: the trait columns inside the dbarts models
  tree,        \* the leaves of each model's forest
  j,           \* the person the joint sweep is at
  installed,   \* what the joint sweep returns
  fit,         \* models whose fit the next ratio reads is of its trees at theta
  theta_sd,    \* the scan that last adapted the proposal SD
  items,       \* the item samplers
  ab,          \* traits whose alpha, beta were drawn given the present theta
  gamma,       \* traits whose gamma was drawn given the present theta
  rows         \* the stored draws

args == <<n_burnin, n_sampling, warmup_start>>
bart == <<x, tree>>
vars == <<n_burnin, n_sampling, warmup_start, pc, i, k, theta, old, x, tree, j,
          installed, fit, theta_sd, items, ab, gamma, rows>>

Labels == {"freeze0", "scan", "ratio", "sweep", "revert", "setResponse",
           "setAssignment", "installed", "adapt", "runResponse", "runAssignment",
           "items", "freeze", "gamma", "store", "done", "threw", "stopped"}

\* What one stored row was made from.
Row == [scan : Nat, fit : SUBSET Model, ab : SUBSET Trait,
        gamma : SUBSET Trait, frozen : SUBSET Trait]

-------------------------------------------------------------------------------
(***************************************************************************)
(* The validating wrapper, irt_causal_bart().                              *)
(***************************************************************************)

ClampNothing(w, b) == w \* mutant: the caller's warmup_start is used as it is

\* warmup_start is pulled below n_burnin, so that some burn-in scan adapts.
ClampWarmupStart(w, b) == IF b > 0 /\ w >= b THEN b \div 2 ELSE w

LateSamplingPhase(scan) == scan > n_burnin + 1 \* mutant: off by one

SamplingPhase(scan) == scan > n_burnin

NTotal == n_burnin + n_sampling

-------------------------------------------------------------------------------
(***************************************************************************)
(* dbarts, as the chain uses it.                                           *)
(***************************************************************************)

\* No leaf of t is empty when the persons sit where the columns X put them.
Occupied(t, X) == \A leaf \in t : \E p \in Person : X[p] \in leaf

Coarser(u, t) == \A leaf \in t : \E whole \in u : leaf \subseteq whole

\* forceUpdate = TRUE merges empty leaves into neighbours until none is left.
Collapsed(t, X) ==
  IF Occupied(t, X) THEN {t}
                    ELSE {u \in Trees : Coarser(u, t) /\ Occupied(u, X)}

\* run(0, 1): tree moves never empty a leaf, but do not repair one either.
Redrawn(t, X) == {u \in Trees : Occupied(t, X) => Occupied(u, X)}

SetColumn(X, col) == [p \in Person |-> [X[p] EXCEPT ![k] = col[p]]]

ThetaColumn == [p \in Person |-> theta[p][k]]

-------------------------------------------------------------------------------

Init ==
  /\ n_burnin \in BurninChoices
  /\ n_sampling \in SamplingChoices
  /\ \E w \in WarmupChoices : warmup_start = ClampWarmupStart(w, n_burnin)
  /\ pc = IF n_burnin = 0 THEN "freeze0" ELSE "scan"
  /\ i = 0 /\ k = 1 /\ j = 1
  /\ theta \in [Person -> Point]
  /\ old = [p \in Person |-> theta[p][1]]
  /\ x = [m \in Model |-> theta]
  /\ tree \in [Model -> {t \in Trees : Occupied(t, theta)}]
  /\ installed = {}
  /\ fit = Model
  /\ theta_sd = 0
  /\ items = [t \in Trait |-> Created]
  /\ ab = {} /\ gamma = {}
  /\ rows = << >>

(***************************************************************************)
(* irt_freeze() of bank k, whichever loop it is called from.               *)
(***************************************************************************)
FreezeBank(next) ==
  /\ IF MayFreeze(items[k])
       THEN /\ items' = [items EXCEPT ![k] = Freeze(@)]
            /\ pc' = IF FreezeSucceeds(items[k]) THEN next ELSE "threw"
       ELSE pc' = "stopped" /\ UNCHANGED items
  /\ UNCHANGED <<args, i, theta, old, bart, j, installed, fit, theta_sd, ab,
                 gamma, rows>>

\* With no burn-in every bank is frozen before the first scan.
FreezeAtStart ==
  /\ pc = "freeze0"
  /\ FreezeBank(IF k = K THEN "scan" ELSE "freeze0")
  /\ k' = IF k = K THEN 1 ELSE k + 1

BeginScan ==
  /\ pc = "scan"
  /\ i < NTotal
  /\ i' = i + 1
  /\ k' = 1
  /\ pc' = "ratio"
  /\ UNCHANGED <<args, theta, old, bart, j, installed, fit, theta_sd, items, ab,
                 gamma, rows>>

Finish ==
  /\ pc = "scan"
  /\ i = NTotal
  /\ pc' = "done"
  /\ UNCHANGED <<args, i, k, theta, old, bart, j, installed, fit, theta_sd, items,
                 ab, gamma, rows>>

(***************************************************************************)
(* Propose and accept trait k for every person.  Which proposals are made  *)
(* and which survive the ratio is random, so any new column may result.    *)
(***************************************************************************)
MoveTheta(col) ==
  /\ pc = "ratio"
  /\ old' = ThetaColumn
  /\ theta' = SetColumn(theta, col)
  /\ j' = 1
  /\ installed' = {}
  /\ fit' = {}
  /\ ab' = ab \ {k}
  /\ gamma' = gamma \ {k}
  /\ pc' = IF SamplingPhase(i) THEN "sweep" ELSE "setResponse"
  /\ UNCHANGED <<args, i, k, bart, theta_sd, items, rows>>

-------------------------------------------------------------------------------
(***************************************************************************)
(* Installing trait k while sampling: updatePredictorPerObservationJointly *)
(* visits the persons in order and gives both models a person's value or   *)
(* neither, refusing one that would empty a leaf of either.                *)
(***************************************************************************)

WithValue(m, p) == [x[m] EXCEPT ![p] = [@ EXCEPT ![k] = theta[p][k]]]

CanInstallInResponse(p) == \* mutant: only the first model is asked
  Occupied(tree["response"], WithValue("response", p))

CanInstall(p) == \A m \in Model : Occupied(tree[m], WithValue(m, p))

JointInstall ==
  /\ pc = "sweep"
  /\ IF CanInstall(j)
       THEN /\ x' = [m \in Model |-> WithValue(m, j)]
            /\ installed' = installed \cup {j}
       ELSE UNCHANGED <<x, installed>>
  /\ j' = j + 1
  /\ pc' = IF j = N THEN "revert" ELSE "sweep"
  /\ UNCHANGED <<args, i, k, theta, old, tree, fit, theta_sd, items, ab, gamma,
                 rows>>

RevertNothing == \* mutant: theta keeps the values the sweep refused
  /\ pc = "revert"
  /\ pc' = "installed"
  /\ UNCHANGED <<args, i, k, theta, old, bart, j, installed, fit, theta_sd, items,
                 ab, gamma, rows>>

\* theta[!installed, k] <- theta_old_k[!installed]
RevertRefused ==
  /\ pc = "revert"
  /\ theta' = [p \in Person |->
                 IF p \in installed THEN theta[p]
                                    ELSE [theta[p] EXCEPT ![k] = old[p]]]
  /\ pc' = "installed"
  /\ UNCHANGED <<args, i, k, old, bart, j, installed, fit, theta_sd, items, ab,
                 gamma, rows>>

(***************************************************************************)
(* Installing trait k in burn-in: each model in turn is forced to take the *)
(* column, whatever its trees lose by it.                                  *)
(***************************************************************************)
SetPredictorUnforced(m) == \* mutant: forceUpdate = FALSE
  LET X == SetColumn(x[m], ThetaColumn)
  IN  /\ x' = IF Occupied(tree[m], X) THEN [x EXCEPT ![m] = X] ELSE x
      /\ UNCHANGED tree

SetPredictor(m) ==
  LET X == SetColumn(x[m], ThetaColumn)
  IN  /\ x' = [x EXCEPT ![m] = X]
      /\ \E u \in Collapsed(tree[m], X) : tree' = [tree EXCEPT ![m] = u]

ForceInstall(m, at, next) ==
  /\ pc = at
  /\ SetPredictor(m)
  /\ pc' = next
  /\ UNCHANGED <<args, i, k, theta, old, j, installed, fit, theta_sd, items, ab,
                 gamma, rows>>

ForceResponse   == ForceInstall("response", "setResponse", "setAssignment")
ForceAssignment == ForceInstall("assignment", "setAssignment", "installed")

-------------------------------------------------------------------------------

NextTraitStale == \* mutant: the current terms are not re-read
  /\ pc = "installed"
  /\ IF k < K THEN k' = k + 1 /\ pc' = "ratio" ELSE k' = k /\ pc' = "adapt"
  /\ UNCHANGED <<args, i, theta, old, bart, j, installed, fit, theta_sd, items, ab,
                 gamma, rows>>

(***************************************************************************)
(* Between traits both models predict at the updated theta; after the last *)
(* trait the fits stay stale until the models are run.                     *)
(***************************************************************************)
NextTrait ==
  /\ pc = "installed"
  /\ IF k < K THEN k' = k + 1 /\ pc' = "ratio" /\ fit' = Model
              ELSE k' = k     /\ pc' = "adapt" /\ fit' = fit
  /\ UNCHANGED <<args, i, theta, old, bart, j, installed, theta_sd, items, ab,
                 gamma, rows>>

AdaptThetaSdAlways == \* mutant: adaptation is not confined to burn-in
  /\ pc = "adapt"
  /\ theta_sd' = i
  /\ pc' = "runResponse"
  /\ UNCHANGED <<args, i, k, theta, old, bart, j, installed, fit, items, ab, gamma,
                 rows>>

AdaptThetaSd ==
  /\ pc = "adapt"
  /\ theta_sd' = IF SamplingPhase(i) THEN theta_sd ELSE i
  /\ pc' = "runResponse"
  /\ UNCHANGED <<args, i, k, theta, old, bart, j, installed, fit, items, ab, gamma,
                 rows>>

\* run(0, 1) redraws the trees given the columns the model holds and returns the
\* fit at those columns, which is a fit at theta only if they are theta.
RunModel(m, at, next) ==
  /\ pc = at
  /\ \E u \in Redrawn(tree[m], x[m]) : tree' = [tree EXCEPT ![m] = u]
  /\ fit' = IF x[m] = theta THEN fit \cup {m} ELSE fit \ {m}
  /\ k' = 1
  /\ pc' = next
  /\ UNCHANGED <<args, i, theta, old, x, j, installed, theta_sd, items, ab, gamma,
                 rows>>

RunResponse   == RunModel("response", "runResponse", "runAssignment")
RunAssignment == RunModel("assignment", "runAssignment", "items")

-------------------------------------------------------------------------------
(***************************************************************************)
(* alpha, beta | theta: one item sampler per bank.                         *)
(***************************************************************************)

AfterItems == IF k = K THEN "gamma" ELSE "items"

FreezesFrom(scan) == scan >= n_burnin \* mutant: frozen again in later scans

FreezesAfter(scan) == scan = n_burnin

\* Leave bank k: to its freeze in the last burn-in scan, else to the next bank.
LeaveBank ==
  IF FreezesAfter(i) THEN pc' = "freeze" /\ k' = k
                     ELSE pc' = AfterItems /\ k' = IF k = K THEN 1 ELSE k + 1

ItemStop ==
  /\ pc' = "stopped"
  /\ UNCHANGED <<k, items, ab>>

ItemDraw ==
  /\ SamplingPhase(i)
  /\ IF MayDraw(items[k])
       THEN /\ items' = [items EXCEPT ![k] = DrawSample(@, i)]
            /\ ab' = ab \cup {k}
            /\ LeaveBank
       ELSE ItemStop

ItemWarmup ==
  /\ ~SamplingPhase(i)
  /\ i > warmup_start
  /\ IF MayWarmup(items[k])
       THEN /\ \E stat \in Statistics :
                 items' = [items EXCEPT ![k] = WarmupDraw(@, i, stat)]
            /\ ab' = ab \cup {k}
            /\ LeaveBank
       ELSE ItemStop

ItemHold ==
  /\ ~SamplingPhase(i)
  /\ i <= warmup_start
  /\ UNCHANGED <<items, ab>>
  /\ LeaveBank

UpdateItems ==
  /\ pc = "items"
  /\ ItemDraw \/ ItemWarmup \/ ItemHold
  /\ UNCHANGED <<args, i, theta, old, bart, j, installed, fit, theta_sd, gamma,
                 rows>>

FreezeAfterBurnin ==
  /\ pc = "freeze"
  /\ FreezeBank(AfterItems)
  /\ k' = IF k = K THEN 1 ELSE k + 1

-------------------------------------------------------------------------------

\* gamma | theta, x for every trait; absent with no covariates.
UpdateGamma ==
  /\ pc = "gamma"
  /\ gamma' = IF HasCovariates THEN Trait ELSE gamma
  /\ pc' = IF SamplingPhase(i) THEN "store" ELSE "scan"
  /\ UNCHANGED <<args, i, k, theta, old, bart, j, installed, fit, theta_sd, items,
                 ab, rows>>

NewRow ==
  [scan   |-> i,
   fit    |-> fit,
   ab     |-> ab,
   gamma  |-> gamma,
   frozen |-> {t \in Trait : items[t].frozen}]

\* Row i_sample - n_burnin of every draws matrix is filled from the present state.
StoreDraw ==
  /\ pc = "store"
  /\ rows' = Append(rows, NewRow)
  /\ pc' = "scan"
  /\ UNCHANGED <<args, i, k, theta, old, bart, j, installed, fit, theta_sd, items,
                 ab, gamma>>

Next ==
  \/ FreezeAtStart \/ BeginScan \/ Finish
  \/ \E col \in [Person -> Values] : MoveTheta(col)
  \/ JointInstall \/ RevertRefused
  \/ ForceResponse \/ ForceAssignment
  \/ NextTrait \/ AdaptThetaSd
  \/ RunResponse \/ RunAssignment
  \/ UpdateItems \/ FreezeAfterBurnin
  \/ UpdateGamma \/ StoreDraw

Spec == Init /\ [][Next]_vars

\* The loop is straight-line R code: an enabled statement is executed.
FairSpec == Spec /\ WF_vars(Next)
-------------------------------------------------------------------------------

Sweeping   == {"sweep", "revert"}
Installing == Sweeping \cup {"setResponse", "setAssignment"}

TypeOK ==
  /\ n_burnin \in Nat /\ n_sampling \in Nat \ {0} /\ warmup_start \in Nat
  /\ pc \in Labels
  /\ i \in 0 .. NTotal /\ k \in Trait /\ j \in 1 .. N + 1
  /\ theta \in [Person -> Point] /\ old \in [Person -> Values]
  /\ x \in [Model -> [Person -> Point]] /\ tree \in [Model -> Trees]
  /\ installed \subseteq Person /\ fit \subseteq Model
  /\ theta_sd \in 0 .. i
  /\ items \in [Trait -> Sampler]
  /\ ab \subseteq Trait /\ gamma \subseteq Trait
  /\ rows \in Seq(Row)

\* Between installs theta and the trait columns of both models are one matrix,
\* and while trait k is being installed the other traits still are ("keeps the
\* two models' trait columns identical").
ColumnsAgree ==
  \A m \in Model, p \in Person, t \in Trait :
    (pc \notin Installing \/ t # k) => x[m][p][t] = theta[p][t]

\* No leaf of either forest is ever without a person: forced installs repair
\* what they empty, and the joint sweep never empties one.
LeavesOccupied == \A m \in Model : Occupied(tree[m], x[m])

\* Every acceptance ratio compares the proposal with fits of the present trees
\* at the present theta: for trait k+1, after trait k has moved.
RatioFresh == pc = "ratio" => fit = Model

\* A stored row is one coherent state: it is the row of its scan, its
\* treatment effect and sigma come from fits at its theta, its alpha, beta and
\* gamma were drawn given its theta, and every bank was frozen.
RowsCoherent ==
  /\ Len(rows) <= n_sampling
  /\ \A d \in 1 .. Len(rows) :
       /\ rows[d].scan = n_burnin + d
       /\ rows[d].fit = Model
       /\ rows[d].ab = Trait
       /\ HasCovariates => rows[d].gamma = Trait
       /\ rows[d].frozen = Trait

\* No choice of n_burnin and warmup_start makes the loop call an item sampler
\* out of order: none of its lifecycle guards ever stops the chain.
LifecycleLegal == pc # "stopped"

\* With a burn-in, a frozen bank was adapted over every burn-in scan after
\* warmup_start, and over at least one (what the clamp is for).
AdaptedBeforeFrozen ==
  n_burnin > 0 =>
    \A t \in Trait : items[t].frozen =>
      /\ items[t].warmup_iter = n_burnin - warmup_start
      /\ items[t].warmup_iter > 0

\* Once sampling has begun a theta that would empty a leaf is rejected: no
\* install changes a tree ("the move must be rejected").
RejectedNotCollapsed ==
  [][i > n_burnin /\ x' # x => tree' = tree]_vars

ChainKernel == <<theta_sd, [t \in Trait |-> items[t].kernel]>>

AllFrozen == \A t \in Trait : items[t].frozen

TwoPhase ==
  INSTANCE TwoPhaseKernel WITH
    Usable   <- Nat \X [Trait -> {w \in Kernel : Validates(w)}],
    NoKernel <- None,
    kernel   <- IF AllFrozen THEN ChainKernel ELSE None,
    kept     <- Len(rows)

\* The chain as a whole adapts, then is fixed at one usable kernel (proposal SD
\* and all banks' tuning together), and every stored row comes after that ("kept
\* draws come from a fixed kernel").
ImplementsTwoPhase == TwoPhase!Spec

\* A chain ends with all the rows it was asked for, unless a bank that saw a NaN
\* acceptance statistic refuses to freeze.
ChainDelivers ==
  <>(pc = "threw" \/ (pc = "done" /\ Len(rows) = n_sampling))
===============================================================================
