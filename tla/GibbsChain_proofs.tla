--------------------------- MODULE GibbsChain_proofs --------------------------
(***************************************************************************)
(* What one chain guarantees for every number of persons, traits, scans    *)
(* and every shape of forest.  Each invariant below is inductive given the *)
(* ones before it, so the theorems stack: types and sampler records, then  *)
(* control, then the agreement of columns and forests, and last what a     *)
(* chain guarantees of the draws it keeps: the number of transitions       *)
(* behind the tuning, the coherence of each row, and that all rows come    *)
(* from one kernel.                                                        *)
(***************************************************************************)
EXTENDS GibbsChain, IrtSampler_proofs

-------------------------------------------------------------------------------
(***************************************************************************)
(* Types.                                                                  *)
(***************************************************************************)

TypeInv == TypeOK /\ \A t \in Trait : GoodSampler(items[t])

\* Replacing trait k in every row of a matrix gives a matrix.
LEMMA SetColumnType ==
  ASSUME NEW X \in [Person -> Point], NEW col \in [Person -> Values]
  PROVE  SetColumn(X, col) \in [Person -> Point]
BY DEF SetColumn, Point

\* A person's new value in a model's matrix gives a matrix.
LEMMA WithValueType ==
  ASSUME TypeOK, NEW m \in Model, NEW p \in Person, k \in Trait
  PROVE  WithValue(m, p) \in [Person -> Point]
<1>1. theta[p][k] \in Values BY DEF TypeOK, Point
<1>2. x[m] \in [Person -> [Trait -> Values]] BY DEF TypeOK, Point
<1>3. [x[m][p] EXCEPT ![k] = theta[p][k]] \in [Trait -> Values] BY <1>1, <1>2
<1>4. QED BY <1>2, <1>3 DEF WithValue, Point

\* What a step can do to the item samplers: nothing, or one entry point of bank k
\* that its guard allows.
LEMMA ItemsShape ==
  ASSUME Next, TypeOK
  PROVE  \/ items' = items
         \/ MayFreeze(items[k]) /\ items' = [items EXCEPT ![k] = Freeze(items[k])]
         \/ MayDraw(items[k]) /\ items' = [items EXCEPT ![k] = DrawSample(items[k], i)]
         \/ /\ MayWarmup(items[k])
            /\ \E stat \in Statistics :
                 items' = [items EXCEPT ![k] = WarmupDraw(items[k], i, stat)]
<1>1. ASSUME NEW next, FreezeBank(next)
      PROVE  \/ items' = items
             \/ MayFreeze(items[k]) /\ items' = [items EXCEPT ![k] = Freeze(items[k])]
  BY <1>1 DEF FreezeBank
<1>2. CASE FreezeAtStart BY <1>1, <1>2 DEF FreezeAtStart
<1>3. CASE FreezeAfterBurnin BY <1>1, <1>3 DEF FreezeAfterBurnin
<1>4. CASE UpdateItems
  BY <1>4 DEF UpdateItems, ItemDraw, ItemWarmup, ItemHold, ItemStop
<1>5. QED
  BY <1>2, <1>3, <1>4
     DEF Next, BeginScan, Finish, MoveTheta, JointInstall, RevertRefused,
         ForceResponse, ForceAssignment, ForceInstall, NextTrait, AdaptThetaSd,
         RunResponse, RunAssignment, RunModel, UpdateGamma, StoreDraw

\* So the samplers stay good whatever the chain does.
LEMMA ItemsStayGood ==
  ASSUME TypeInv, [Next]_vars
  PROVE  /\ items' \in [Trait -> Sampler]
         /\ \A t \in Trait : GoodSampler(items'[t])
<1>1. /\ items \in [Trait -> Sampler] /\ k \in Trait /\ i \in Nat
      /\ \A t \in Trait : GoodSampler(items[t])
  BY DEF TypeInv, TypeOK, NTotal
<1>2. CASE items' = items BY <1>1, <1>2
<1>3. ASSUME NEW q, GoodSampler(q), items' = [items EXCEPT ![k] = q]
      PROVE  /\ items' \in [Trait -> Sampler]
             /\ \A t \in Trait : GoodSampler(items'[t])
  <2>1. q \in Sampler BY <1>3 DEF GoodSampler
  <2>2. QED BY <1>1, <1>3, <2>1
<1>4. CASE MayFreeze(items[k]) /\ items' = [items EXCEPT ![k] = Freeze(items[k])]
  <2>1. GoodSampler(Freeze(items[k])) BY <1>1, <1>4, FreezeGood
  <2>2. QED BY <1>3, <1>4, <2>1
<1>5. CASE MayDraw(items[k]) /\ items' = [items EXCEPT ![k] = DrawSample(items[k], i)]
  <2>1. GoodSampler(DrawSample(items[k], i)) BY <1>1, <1>5, DrawGood
  <2>2. QED BY <1>3, <1>5, <2>1
<1>6. ASSUME MayWarmup(items[k]), NEW stat \in Statistics,
             items' = [items EXCEPT ![k] = WarmupDraw(items[k], i, stat)]
      PROVE  /\ items' \in [Trait -> Sampler]
             /\ \A t \in Trait : GoodSampler(items'[t])
  <2>1. GoodSampler(WarmupDraw(items[k], i, stat)) BY <1>1, <1>6, WarmupGood
  <2>2. QED BY <1>3, <1>6, <2>1
<1>7. CASE UNCHANGED vars BY <1>2, <1>7 DEF vars
<1>8. CASE Next
  <2>1. TypeOK BY DEF TypeInv
  <2>2. QED BY <1>2, <1>4, <1>5, <1>6, <1>8, <2>1, ItemsShape
<1>9. QED BY <1>7, <1>8

\* The joint sweep is only ever at a person.
SweepInRange == pc = "sweep" => j \in Person

\* The first scan of TypeOK that is not about samplers: each action in turn.
LEMMA TypeInit == Init => TypeInv /\ SweepInRange
<1> SUFFICES ASSUME Init PROVE TypeInv /\ SweepInRange
  OBVIOUS
<1>1. warmup_start \in Nat
  <2>1. PICK w \in WarmupChoices : warmup_start = ClampWarmupStart(w, n_burnin)
    BY DEF Init
  <2>2. w \in Nat /\ n_burnin \in Nat BY <2>1, ChainAssumption DEF Init
  <2>3. n_burnin \div 2 \in Nat BY <2>2
  <2>4. QED BY <2>1, <2>2, <2>3 DEF ClampWarmupStart
<1>2. items \in [Trait -> Sampler] /\ \A t \in Trait : GoodSampler(items[t])
  BY CreatedGood DEF Init, GoodSampler
<1>3. 1 \in Trait /\ 1 \in 1 .. N + 1 /\ 1 \in Person
  BY ChainAssumption DEF Trait, Person
<1>4. old \in [Person -> Values]
  BY <1>3 DEF Init, Point
<1>5. tree \in [Model -> Trees] BY DEF Init
<1>6. /\ n_burnin \in Nat /\ n_sampling \in Nat \ {0}
      /\ i \in 0 .. NTotal /\ theta_sd \in 0 .. i
  BY ChainAssumption DEF Init, NTotal
<1>7. rows \in Seq(Row) BY DEF Init
<1>8. pc \in Labels BY DEF Init, Labels
<1>9. TypeOK
  BY <1>1, <1>2, <1>3, <1>4, <1>5, <1>6, <1>7, <1>8 DEF Init, TypeOK
<1>10. QED BY <1>2, <1>3, <1>9 DEF TypeInv, SweepInRange, Init

LEMMA TypeNext ==
  TypeInv /\ SweepInRange /\ [Next]_vars => TypeInv' /\ SweepInRange'
<1> SUFFICES ASSUME TypeInv, SweepInRange, [Next]_vars
             PROVE  TypeOK' /\ SweepInRange'
  BY ItemsStayGood DEF TypeInv
<1>0. TypeOK /\ items' \in [Trait -> Sampler]
  BY ItemsStayGood DEF TypeInv
<1>a. /\ 1 \in Trait /\ (k # K => k + 1 \in Trait) /\ (k < K => k + 1 \in Trait)
      /\ 1 \in 1 .. N + 1 /\ 1 \in Person /\ N \in Nat
  BY <1>0, ChainAssumption DEF TypeOK, Trait, Person
<1>b. n_burnin \in Nat /\ n_sampling \in Nat /\ i \in Nat /\ i <= NTotal /\ NTotal \in Nat
  BY <1>0 DEF TypeOK, NTotal
<1>1. CASE UNCHANGED vars
  BY <1>0, <1>1 DEF vars, args, bart, TypeOK, SweepInRange, NTotal
<1>2. ASSUME NEW next \in {"scan", "freeze0", "items", "gamma"},
             FreezeBank(next), k' = IF k = K THEN 1 ELSE k + 1
      PROVE  TypeOK' /\ SweepInRange'
  <2>1. pc' \in Labels \ {"sweep"} BY <1>2 DEF FreezeBank, Labels
  <2>2. QED
    BY <1>0, <1>a, <1>2, <2>1 DEF FreezeBank, TypeOK, SweepInRange, NTotal, args, bart
<1>3. CASE FreezeAtStart BY <1>2, <1>3 DEF FreezeAtStart
<1>4. CASE FreezeAfterBurnin BY <1>2, <1>4 DEF FreezeAfterBurnin, AfterItems
<1>5. CASE BeginScan
  <2>1. i' \in 0 .. NTotal /\ theta_sd' \in 0 .. i'
    BY <1>0, <1>b, <1>5 DEF BeginScan, TypeOK
  <2>2. QED
    BY <1>0, <1>a, <1>5, <2>1
       DEF BeginScan, TypeOK, SweepInRange, NTotal, args, bart, Labels
<1>6. CASE Finish
  BY <1>0, <1>6 DEF Finish, TypeOK, SweepInRange, NTotal, args, bart, Labels
<1>7. ASSUME NEW col \in [Person -> Values], MoveTheta(col)
      PROVE  TypeOK' /\ SweepInRange'
  <2>1. theta' \in [Person -> Point]
    BY <1>0, <1>7, SetColumnType DEF MoveTheta, TypeOK
  <2>2. old' \in [Person -> Values]
    BY <1>0, <1>7 DEF MoveTheta, ThetaColumn, TypeOK, Point
  <2>3. pc' \in {"sweep", "setResponse"} BY <1>7 DEF MoveTheta
  <2>4. /\ j' = 1 /\ installed' = {} /\ fit' = {}
        /\ ab' \subseteq Trait /\ gamma' \subseteq Trait
        /\ UNCHANGED <<args, i, k, bart, theta_sd, items, rows>>
    BY <1>0, <1>7 DEF MoveTheta, TypeOK
  <2>5. QED
    BY <1>0, <1>a, <2>1, <2>2, <2>3, <2>4
       DEF TypeOK, SweepInRange, NTotal, args, bart, Labels
<1>8. CASE JointInstall
  <2>1. j \in Person BY <1>8 DEF JointInstall, SweepInRange
  <2>2. x' \in [Model -> [Person -> Point]]
    BY <1>0, <1>8, <2>1, WithValueType DEF JointInstall, TypeOK
  <2>3. installed' \subseteq Person
    BY <1>0, <1>8, <2>1 DEF JointInstall, TypeOK
  <2>4. j' \in 1 .. N + 1 /\ (pc' = "sweep" => j' \in Person) /\ pc' \in Labels
    BY <1>a, <1>8, <2>1 DEF JointInstall, Person, Labels
  <2>5. QED
    BY <1>0, <1>8, <2>2, <2>3, <2>4
       DEF JointInstall, TypeOK, SweepInRange, NTotal, args, bart
<1>9. CASE RevertRefused
  <2>1. theta' \in [Person -> Point]
    BY <1>0, <1>9 DEF RevertRefused, TypeOK, Point
  <2>2. QED
    BY <1>0, <1>9, <2>1
       DEF RevertRefused, TypeOK, SweepInRange, NTotal, args, bart, Labels
<1>10. ASSUME NEW m \in Model, NEW at, NEW next \in {"setAssignment", "installed"},
              ForceInstall(m, at, next)
       PROVE  TypeOK' /\ SweepInRange'
  <2>1. ThetaColumn \in [Person -> Values]
    BY <1>0 DEF TypeOK, Point, ThetaColumn
  <2>2. SetColumn(x[m], ThetaColumn) \in [Person -> Point]
    BY <1>0, <2>1, SetColumnType DEF TypeOK
  <2>3. x' \in [Model -> [Person -> Point]]
    BY <1>0, <1>10, <2>2 DEF ForceInstall, SetPredictor, TypeOK
  <2>4. PICK u : /\ u \in Collapsed(tree[m], SetColumn(x[m], ThetaColumn))
                 /\ tree' = [tree EXCEPT ![m] = u]
    BY <1>10 DEF ForceInstall, SetPredictor
  <2>5. u \in Trees BY <1>0, <2>4 DEF Collapsed, TypeOK
  <2>6. tree' \in [Model -> Trees] BY <1>0, <2>4, <2>5 DEF TypeOK
  <2>7. QED
    BY <1>0, <1>10, <2>3, <2>6
       DEF ForceInstall, TypeOK, SweepInRange, NTotal, args, Labels
<1>11. CASE ForceResponse BY <1>10, <1>11 DEF ForceResponse, Model
<1>12. CASE ForceAssignment BY <1>10, <1>12 DEF ForceAssignment, Model
<1>13. CASE NextTrait
  BY <1>0, <1>a, <1>13
     DEF NextTrait, TypeOK, SweepInRange, NTotal, args, bart, Labels
<1>14. CASE AdaptThetaSd
  BY <1>0, <1>b, <1>14
     DEF AdaptThetaSd, TypeOK, SweepInRange, NTotal, args, bart, Labels
<1>15. ASSUME NEW m \in Model, NEW at, NEW next \in {"runAssignment", "items"},
              RunModel(m, at, next)
       PROVE  TypeOK' /\ SweepInRange'
  <2>1. PICK u \in Trees : tree' = [tree EXCEPT ![m] = u]
    BY <1>15 DEF RunModel, Redrawn
  <2>2. tree' \in [Model -> Trees] /\ fit' \subseteq Model
    BY <1>0, <1>15, <2>1 DEF TypeOK, RunModel
  <2>3. QED
    BY <1>0, <1>a, <1>15, <2>2
       DEF RunModel, TypeOK, SweepInRange, NTotal, args, Labels
<1>16. CASE RunResponse BY <1>15, <1>16 DEF RunResponse, Model
<1>17. CASE RunAssignment BY <1>15, <1>17 DEF RunAssignment, Model
<1>18. CASE UpdateItems
  <2>1. /\ ab' \subseteq Trait /\ k' \in Trait
        /\ pc' \in {"freeze", "items", "gamma", "stopped"}
    BY <1>0, <1>a, <1>18
       DEF UpdateItems, ItemDraw, ItemWarmup, ItemHold, ItemStop, LeaveBank,
           AfterItems, TypeOK
  <2>2. QED
    BY <1>0, <1>18, <2>1
       DEF UpdateItems, TypeOK, SweepInRange, NTotal, args, bart, Labels
<1>19. CASE UpdateGamma
  BY <1>0, <1>19
     DEF UpdateGamma, TypeOK, SweepInRange, NTotal, args, bart, Labels
<1>20. CASE StoreDraw
  <2>1. NewRow \in Row
    BY <1>0, <1>b DEF NewRow, Row, TypeOK
  <2>2. rows' \in Seq(Row) BY <1>0, <1>20, <2>1 DEF StoreDraw, TypeOK
  <2>3. QED
    BY <1>0, <1>20, <2>2
       DEF StoreDraw, TypeOK, SweepInRange, NTotal, args, bart, Labels
<1>21. QED
  BY <1>1, <1>3, <1>4, <1>5, <1>6, <1>7, <1>8, <1>9, <1>11, <1>12, <1>13, <1>14,
     <1>16, <1>17, <1>18, <1>19, <1>20 DEF Next

LEMMA TypeInvHolds == Spec => [](TypeInv /\ SweepInRange)
BY TypeInit, TypeNext, PTL DEF Spec

\* Every piece of state the chain keeps stays in its type, its samplers included.
THEOREM ChainTypeCorrect == Spec => []TypeOK
<1>1. TypeInv => TypeOK BY DEF TypeInv
<1>2. QED BY <1>1, TypeInvHolds, PTL

-------------------------------------------------------------------------------
(***************************************************************************)
(* Forests: every way the columns or the trees change keeps every leaf     *)
(* occupied, and needs no other invariant to do so.                        *)
(***************************************************************************)

LEMMA OccupiedNext == TypeOK /\ LeavesOccupied /\ [Next]_vars => LeavesOccupied'
<1> SUFFICES ASSUME TypeOK, LeavesOccupied, [Next]_vars
             PROVE  \A m \in Model : Occupied(tree'[m], x'[m])
  BY DEF LeavesOccupied, Occupied
<1>0. /\ x \in [Model -> [Person -> Point]] /\ tree \in [Model -> Trees]
      /\ \A m \in Model : Occupied(tree[m], x[m])
  BY DEF TypeOK, LeavesOccupied
<1>1. CASE UNCHANGED bart BY <1>0, <1>1 DEF bart
<1>2. CASE JointInstall
  BY <1>0, <1>2 DEF JointInstall, CanInstall
<1>3. ASSUME NEW n \in Model, NEW at, NEW next, ForceInstall(n, at, next),
             NEW m \in Model
      PROVE  Occupied(tree'[m], x'[m])
  <2> DEFINE X == SetColumn(x[n], ThetaColumn)
  <2>1. PICK u \in Collapsed(tree[n], X) :
          tree' = [tree EXCEPT ![n] = u] /\ x' = [x EXCEPT ![n] = X]
    BY <1>3 DEF ForceInstall, SetPredictor
  <2>2. Occupied(u, X) BY <2>1 DEF Collapsed
  <2> HIDE DEF X
  <2>3. QED BY <1>0, <2>1, <2>2
<1>4. ASSUME NEW n \in Model, NEW at, NEW next, RunModel(n, at, next),
             NEW m \in Model
      PROVE  Occupied(tree'[m], x'[m])
  <2>1. PICK u \in Redrawn(tree[n], x[n]) :
          tree' = [tree EXCEPT ![n] = u] /\ x' = x
    BY <1>4 DEF RunModel
  <2>2. Occupied(u, x[n]) BY <1>0, <2>1 DEF Redrawn
  <2>3. QED BY <1>0, <2>1, <2>2
<1>5. CASE ForceResponse \/ ForceAssignment
  BY <1>3, <1>5 DEF ForceResponse, ForceAssignment, Model
<1>6. CASE RunResponse \/ RunAssignment
  <2>1. "response" \in Model /\ "assignment" \in Model BY DEF Model
  <2>2. CASE RunResponse BY <1>4, <2>1, <2>2 DEF RunResponse
  <2>3. CASE RunAssignment BY <1>4, <2>1, <2>3 DEF RunAssignment
  <2>4. QED BY <1>6, <2>2, <2>3
<1>7. CASE UNCHANGED vars BY <1>1, <1>7 DEF vars, bart
<1>8. QED
  BY <1>1, <1>2, <1>5, <1>6, <1>7
     DEF Next, FreezeAtStart, FreezeBank, BeginScan, Finish, MoveTheta,
         RevertRefused, NextTrait, AdaptThetaSd, UpdateItems, FreezeAfterBurnin,
         UpdateGamma, StoreDraw, bart

\* No leaf of either forest is ever left without a person.
THEOREM ForestsStayOccupied == Spec => []LeavesOccupied
<1>1. Init => LeavesOccupied BY DEF Init, LeavesOccupied
<1>2. QED BY <1>1, OccupiedNext, ChainTypeCorrect, PTL DEF Spec

-------------------------------------------------------------------------------
(***************************************************************************)
(* Columns.  While trait k is being installed a model holds, person by     *)
(* person, either theta or theta with the old value of trait k; which of   *)
(* the two is fixed by pc and by what the sweep has installed.             *)
(***************************************************************************)

\* The row a model holds for p before p's new value is installed.
Behind(p) == [theta[p] EXCEPT ![k] = old[p]]

ColumnsInv ==
  /\ pc \notin Installing => \A m \in Model : x[m] = theta
  /\ pc \in Sweeping =>
       \A m \in Model, p \in Person :
         x[m][p] = IF p \in installed THEN theta[p] ELSE Behind(p)
  /\ pc = "sweep" => \A p \in installed : p < j
  /\ pc = "setResponse" =>
       \A m \in Model, p \in Person : x[m][p] = Behind(p)
  /\ pc = "setAssignment" =>
       /\ x["response"] = theta
       /\ \A p \in Person : x["assignment"][p] = Behind(p)

\* The invariant is what ColumnsAgree needs.
LEMMA ColumnsInvSuffices == TypeOK /\ ColumnsInv => ColumnsAgree
<1> SUFFICES ASSUME TypeOK, ColumnsInv, NEW m \in Model, NEW p \in Person,
                    NEW t \in Trait, pc \notin Installing \/ t # k
             PROVE  x[m][p][t] = theta[p][t]
  BY DEF ColumnsAgree
<1>1. theta[p] \in [Trait -> Values] BY DEF TypeOK, Point
<1>2. Behind(p) \in [Trait -> Values] \/ t = k \/ Behind(p)[t] = theta[p][t]
  BY <1>1 DEF Behind
<1>3. t # k => Behind(p)[t] = theta[p][t] BY <1>1 DEF Behind
<1>4. CASE pc \notin Installing BY <1>4 DEF ColumnsInv
<1>5. CASE pc \in Installing
  BY <1>3, <1>5 DEF ColumnsInv, Installing, Sweeping, Model
<1>6. QED BY <1>4, <1>5

\* Installing person p's value in a model that is behind brings it to theta.
LEMMA CatchUp ==
  ASSUME TypeOK, NEW p \in Person,
         NEW row, row = Behind(p) \/ row = theta[p]
  PROVE  [row EXCEPT ![k] = theta[p][k]] = theta[p]
<1>1. theta[p] \in [Trait -> Values] /\ k \in Trait BY DEF TypeOK, Point
<1>2. QED BY <1>1 DEF Behind

LEMMA ColumnsNext ==
  TypeOK /\ SweepInRange /\ ColumnsInv /\ [Next]_vars => ColumnsInv'
<1> SUFFICES ASSUME TypeOK, SweepInRange, ColumnsInv, [Next]_vars
             PROVE  ColumnsInv'
  OBVIOUS
<1> USE DEF Installing, Sweeping
<1>0. /\ x \in [Model -> [Person -> Point]] /\ theta \in [Person -> Point]
      /\ old \in [Person -> Values] /\ k \in Trait /\ j \in Nat
      /\ installed \subseteq Person
  BY DEF TypeOK
<1>1. CASE UNCHANGED vars
  BY <1>1 DEF vars, bart, ColumnsInv, Behind
<1>2. CASE pc \notin Installing /\ pc' \notin Installing /\ UNCHANGED <<theta, x>>
  BY <1>2 DEF ColumnsInv
<1>3. ASSUME NEW col \in [Person -> Values], MoveTheta(col)
      PROVE  ColumnsInv'
  <2>1. \A m \in Model : x[m] = theta
    BY <1>3 DEF MoveTheta, ColumnsInv
  <2>2. /\ theta' = SetColumn(theta, col) /\ old' = ThetaColumn
        /\ x' = x /\ k' = k /\ installed' = {} /\ pc' \in {"sweep", "setResponse"}
    BY <1>3 DEF MoveTheta, bart
  <2>3. ASSUME NEW p \in Person
        PROVE  [theta'[p] EXCEPT ![k] = old'[p]] = theta[p]
    <3>1. theta[p] \in [Trait -> Values] BY <1>0 DEF Point
    <3>2. theta'[p] = [theta[p] EXCEPT ![k] = col[p]] /\ old'[p] = theta[p][k]
      BY <2>2 DEF SetColumn, ThetaColumn
    <3>3. QED BY <1>0, <3>1, <3>2
  <2>4. \A m \in Model, p \in Person : x'[m][p] = Behind(p)'
    BY <2>1, <2>2, <2>3 DEF Behind
  <2>5. QED BY <2>2, <2>4 DEF ColumnsInv
<1>4. CASE JointInstall
  <2>1. j \in Person /\ pc = "sweep" BY <1>4 DEF JointInstall, SweepInRange
  <2>2. /\ UNCHANGED <<theta, old, k>> /\ pc' \in Sweeping
        /\ j' = j + 1
    BY <1>4 DEF JointInstall
  <2>3. /\ \A p \in installed : p < j
        /\ \A m \in Model, p \in Person :
             x[m][p] = IF p \in installed THEN theta[p] ELSE Behind(p)
    BY <2>1 DEF ColumnsInv
  <2>4. \A p \in Person : Behind(p)' = Behind(p) BY <2>2 DEF Behind
  <2>5. CASE CanInstall(j)
    <3>1. installed' = installed \cup {j} /\ x' = [m \in Model |-> WithValue(m, j)]
      BY <1>4, <2>5 DEF JointInstall
    <3>2. ASSUME NEW m \in Model, NEW p \in Person
          PROVE  x'[m][p] = IF p \in installed' THEN theta[p] ELSE Behind(p)
      <4>1. x'[m] = [x[m] EXCEPT ![j] = [x[m][j] EXCEPT ![k] = theta[j][k]]]
        BY <3>1 DEF WithValue
      <4>2. x[m][j] = Behind(j) \/ x[m][j] = theta[j] BY <2>1, <2>3
      <4>3. [x[m][j] EXCEPT ![k] = theta[j][k]] = theta[j]
        BY <2>1, <4>2, CatchUp
      <4>4. x'[m] = [x[m] EXCEPT ![j] = theta[j]] BY <4>1, <4>3
      <4>5. QED BY <1>0, <2>1, <2>3, <3>1, <4>4
    <3>3. \A p \in installed' : p < j'
      BY <1>0, <2>2, <2>3, <3>1 DEF Person
    <3>4. QED BY <2>2, <2>4, <3>2, <3>3 DEF ColumnsInv
  <2>6. CASE ~CanInstall(j)
    <3>1. installed' = installed /\ x' = x
      BY <1>4, <2>6 DEF JointInstall
    <3>2. \A p \in installed' : p < j'
      BY <1>0, <2>2, <2>3, <3>1 DEF Person
    <3>3. QED BY <2>2, <2>3, <2>4, <3>1, <3>2 DEF ColumnsInv
  <2>7. QED BY <2>5, <2>6
<1>5. CASE RevertRefused
  <2>1. /\ pc' = "installed" /\ x' = x
        /\ theta' = [p \in Person |-> IF p \in installed THEN theta[p] ELSE Behind(p)]
    BY <1>5 DEF RevertRefused, bart, Behind
  <2>2. \A m \in Model, p \in Person :
          x[m][p] = IF p \in installed THEN theta[p] ELSE Behind(p)
    BY <1>5 DEF RevertRefused, ColumnsInv
  <2>3. ASSUME NEW m \in Model PROVE x'[m] = theta'
    BY <1>0, <2>1, <2>2
  <2>4. QED BY <2>1, <2>3 DEF ColumnsInv
<1>6. ASSUME NEW m \in Model, \A p \in Person : x[m][p] = Behind(p)
      PROVE  SetColumn(x[m], ThetaColumn) = theta
  <2>1. ASSUME NEW p \in Person
        PROVE  [x[m][p] EXCEPT ![k] = ThetaColumn[p]] = theta[p]
    BY <1>6, CatchUp DEF ThetaColumn
  <2>2. QED BY <1>0, <2>1 DEF SetColumn
<1>7. CASE ForceResponse
  <2>1. /\ x' = [x EXCEPT !["response"] = SetColumn(x["response"], ThetaColumn)]
        /\ pc = "setResponse" /\ pc' = "setAssignment" /\ UNCHANGED <<theta, old, k>>
    BY <1>7 DEF ForceResponse, ForceInstall, SetPredictor
  <2>2. \A m \in Model, p \in Person : x[m][p] = Behind(p)
    BY <2>1 DEF ColumnsInv
  <2>3. x'["response"] = theta /\ x'["assignment"] = x["assignment"]
    BY <1>0, <1>6, <2>1, <2>2 DEF Model
  <2>4. QED BY <2>1, <2>2, <2>3 DEF ColumnsInv, Behind, Model
<1>8. CASE ForceAssignment
  <2>1. /\ x' = [x EXCEPT !["assignment"] = SetColumn(x["assignment"], ThetaColumn)]
        /\ pc = "setAssignment" /\ pc' = "installed" /\ UNCHANGED theta
    BY <1>8 DEF ForceAssignment, ForceInstall, SetPredictor
  <2>2. x["response"] = theta /\ \A p \in Person : x["assignment"][p] = Behind(p)
    BY <2>1 DEF ColumnsInv
  <2>3. x'["response"] = theta /\ x'["assignment"] = theta
    BY <1>0, <1>6, <2>1, <2>2 DEF Model
  <2>4. QED BY <2>1, <2>3 DEF ColumnsInv, Model
<1>9. QED
  BY <1>1, <1>2, <1>3, <1>4, <1>5, <1>7, <1>8
     DEF Next, FreezeAtStart, FreezeBank, BeginScan, Finish, NextTrait,
         AdaptThetaSd, RunResponse, RunAssignment, RunModel, UpdateItems,
         ItemDraw, ItemWarmup, ItemHold, ItemStop, LeaveBank, AfterItems,
         FreezeAfterBurnin, UpdateGamma, StoreDraw, bart

LEMMA ColumnsInvHolds == Spec => []ColumnsInv
<1>1. Init => ColumnsInv
  BY DEF Init, ColumnsInv, Installing, Sweeping
<1>2. QED BY <1>1, ColumnsNext, ChainTypeCorrect, TypeInvHolds, PTL DEF Spec

\* Between installs theta and the columns of both models are the same matrix,
\* and during an install they differ in the trait being installed only.
THEOREM ColumnsStayInStep == Spec => []ColumnsAgree
BY ColumnsInvHolds, ChainTypeCorrect, ColumnsInvSuffices, PTL

-------------------------------------------------------------------------------
(***************************************************************************)
(* Control.  Which banks are frozen is a function of where the loop is;    *)
(* with that, every lifecycle guard of a sampler passes when it is called. *)
(***************************************************************************)

BetweenScans == {"scan", "gamma", "store", "done"}

ShouldBeFrozen(t) ==
  \/ pc = "freeze0" /\ t < k
  \/ pc \in BetweenScans /\ i >= n_burnin
  \/ pc \in {"items", "freeze"} /\ i = n_burnin /\ t < k
  \/ pc \notin BetweenScans \cup {"freeze0"} /\ i > n_burnin

PhaseInv ==
  /\ pc = "freeze0" => i = 0 /\ n_burnin = 0
  /\ pc \notin {"freeze0", "scan", "done", "threw"} => i > 0
  /\ pc = "freeze" => i = n_burnin
  /\ pc = "store" => i > n_burnin
  /\ pc \in Sweeping => i > n_burnin
  /\ pc \in {"setResponse", "setAssignment"} => i <= n_burnin
  /\ pc = "done" => i = NTotal
  /\ pc # "stopped"
  /\ pc # "threw" => \A t \in Trait : items[t].frozen <=> ShouldBeFrozen(t)

\* Freezing a bank that is not frozen touches that bank only, and either freezes
\* it or ends the chain.
LEMMA FreezeBankEffect ==
  ASSUME TypeInv, NEW next, FreezeBank(next), ~items[k].frozen
  PROVE  /\ \A t \in Trait : t # k => items'[t] = items[t]
         /\ items'[k].warmup_iter = items[k].warmup_iter
         /\ \/ pc' = next /\ items'[k].frozen
               /\ items'[k].kernel \in Kernel /\ Validates(items'[k].kernel)
            \/ pc' = "threw" /\ ~items'[k].frozen
<1>1. /\ items \in [Trait -> Sampler] /\ k \in Trait /\ GoodSampler(items[k])
  BY DEF TypeInv, TypeOK
<1>2. MayFreeze(items[k])
  <2>1. items[k].adapter # None
    BY <1>1 DEF GoodSampler, OneEngine, IsAdapter
  <2>2. QED BY <2>1 DEF MayFreeze, IsAdapter
<1>3. /\ items' = [items EXCEPT ![k] = Freeze(items[k])]
      /\ pc' = IF FreezeSucceeds(items[k]) THEN next ELSE "threw"
  BY <1>2 DEF FreezeBank
<1>4. /\ items'[k] = Freeze(items[k])
      /\ \A t \in Trait : t # k => items'[t] = items[t]
  BY <1>1, <1>3
<1>5. QED BY <1>1, <1>2, <1>3, <1>4, FreezeGood DEF Validates

\* What the item step does to the banks: only bank k, never its frozen flag or
\* kernel, and one more transition exactly in an adapting scan.
LEMMA ItemStepEffect ==
  ASSUME TypeInv, PhaseInv, UpdateItems
  PROVE  /\ LeaveBank
         /\ \A t \in Trait : /\ items'[t].frozen = items[t].frozen
                             /\ items'[t].kernel = items[t].kernel
         /\ \A t \in Trait : t # k => items'[t] = items[t]
         /\ items'[k].warmup_iter =
              IF i <= n_burnin /\ i > warmup_start THEN items[k].warmup_iter + 1
                                                   ELSE items[k].warmup_iter
         /\ ab \subseteq ab' /\ (SamplingPhase(i) => k \in ab')
<1>1. /\ items \in [Trait -> Sampler] /\ k \in Trait /\ GoodSampler(items[k])
      /\ i \in Nat /\ n_burnin \in Nat
  BY DEF TypeInv, TypeOK, NTotal
<1>2. items[k].frozen <=> i > n_burnin
  <2>1. pc = "items" BY DEF UpdateItems
  <2>2. ~(k < k) BY <1>1 DEF Trait
  <2>3. QED BY <1>1, <2>1, <2>2 DEF PhaseInv, ShouldBeFrozen, BetweenScans
<1>3. CASE ItemDraw
  <2>1. MayDraw(items[k]) /\ SamplingPhase(i)
    BY <1>2, <1>3 DEF ItemDraw, SamplingPhase, MayDraw
  <2>2. /\ items' = [items EXCEPT ![k] = DrawSample(items[k], i)]
        /\ ab' = ab \cup {k} /\ LeaveBank
    BY <1>3, <2>1 DEF ItemDraw
  <2>3. items'[k] = DrawSample(items[k], i) BY <1>1, <2>2
  <2>4. /\ items'[k].frozen = items[k].frozen
        /\ items'[k].kernel = items[k].kernel
        /\ items'[k].warmup_iter = items[k].warmup_iter
    <3>1. /\ GoodSampler(items'[k]) /\ items'[k].frozen
          /\ items'[k].kernel = items[k].kernel
          /\ items'[k].warmup_iter = items[k].warmup_iter
      BY <1>1, <2>1, <2>3, DrawGood
    <3>2. items[k].frozen BY <2>1 DEF MayDraw
    <3>3. items'[k].frozen = items[k].frozen
      BY <1>1, <3>1, <3>2 DEF GoodSampler, Sampler
    <3>4. QED BY <3>1, <3>3
  <2>5. \A t \in Trait : t # k => items'[t] = items[t] BY <1>1, <2>2
  <2>6. ~(i <= n_burnin) BY <1>1, <2>1 DEF SamplingPhase
  <2>7. QED BY <2>2, <2>4, <2>5, <2>6
<1>4. CASE ItemWarmup
  <2>1. items[k].adapter # None /\ ~items[k].frozen /\ i <= n_burnin
    BY <1>1, <1>2, <1>4
       DEF ItemWarmup, SamplingPhase, GoodSampler, OneEngine, IsAdapter
  <2>2. MayWarmup(items[k]) BY <2>1 DEF MayWarmup, IsAdapter
  <2>3. PICK stat \in Statistics :
          items' = [items EXCEPT ![k] = WarmupDraw(items[k], i, stat)]
    BY <1>4, <2>2 DEF ItemWarmup
  <2>4. items'[k] = WarmupDraw(items[k], i, stat) BY <1>1, <2>3
  <2>5. /\ ~items'[k].frozen
        /\ items'[k].kernel = items[k].kernel
        /\ items'[k].warmup_iter = items[k].warmup_iter + 1
        /\ GoodSampler(items'[k])
    BY <1>1, <2>2, <2>4, WarmupGood
  <2>6. items'[k].frozen = items[k].frozen
    BY <1>1, <2>1, <2>5 DEF GoodSampler, Sampler
  <2>7. \A t \in Trait : t # k => items'[t] = items[t] BY <1>1, <2>3
  <2>8. /\ LeaveBank /\ ab' = ab \cup {k}
        /\ i > warmup_start /\ ~SamplingPhase(i)
    BY <1>4, <2>2 DEF ItemWarmup
  <2>9. QED BY <2>1, <2>5, <2>6, <2>7, <2>8
<1>5. CASE ItemHold
  <2>1. /\ items' = items /\ ab' = ab /\ LeaveBank
        /\ ~SamplingPhase(i) /\ i <= warmup_start
    BY <1>5 DEF ItemHold
  <2>2. warmup_start \in Nat BY DEF TypeInv, TypeOK
  <2>3. ~(i > warmup_start) BY <1>1, <2>1, <2>2
  <2>4. QED BY <2>1, <2>3
<1>6. QED BY <1>3, <1>4, <1>5 DEF UpdateItems

LEMMA PhaseNext == TypeInv /\ PhaseInv /\ [Next]_vars => PhaseInv'
<1> SUFFICES ASSUME TypeInv, PhaseInv, [Next]_vars PROVE PhaseInv'
  OBVIOUS
<1> USE DEF Sweeping, BetweenScans
<1>0. /\ n_burnin \in Nat /\ n_sampling \in Nat /\ i \in Nat /\ k \in 1 .. K
      /\ K \in Nat \ {0} /\ NTotal = n_burnin + n_sampling /\ i <= NTotal
      /\ n_sampling > 0
  BY ChainAssumption DEF TypeInv, TypeOK, NTotal, Trait
<1>1. CASE UNCHANGED vars
  BY <1>1 DEF vars, args, PhaseInv, ShouldBeFrozen, NTotal
<1>2. CASE FreezeAtStart
  <2>1. pc = "freeze0" /\ i = 0 /\ n_burnin = 0 /\ UNCHANGED <<args, i>>
    BY <1>2 DEF FreezeAtStart, FreezeBank, PhaseInv
  <2>2. \A t \in Trait : items[t].frozen <=> t < k
    BY <2>1 DEF PhaseInv, ShouldBeFrozen
  <2>3. ~items[k].frozen BY <1>0, <2>2 DEF Trait
  <2>4. k' = IF k = K THEN 1 ELSE k + 1 BY <1>2 DEF FreezeAtStart
  <2>5. /\ \A t \in Trait : t # k => items'[t] = items[t]
        /\ \/ pc' = (IF k = K THEN "scan" ELSE "freeze0") /\ items'[k].frozen
           \/ pc' = "threw"
    BY <1>2, <2>3, FreezeBankEffect DEF FreezeAtStart
  <2>6. CASE pc' = "threw" BY <2>1, <2>6 DEF PhaseInv, NTotal, args
  <2>7. CASE k = K /\ pc' = "scan" /\ items'[k].frozen
    <3>1. \A t \in Trait : items'[t].frozen
      BY <1>0, <2>2, <2>5, <2>7 DEF Trait
    <3>2. QED BY <2>1, <2>7, <3>1 DEF PhaseInv, ShouldBeFrozen, args
  <2>8. CASE k # K /\ pc' = "freeze0" /\ items'[k].frozen
    <3>1. \A t \in Trait : items'[t].frozen <=> t < k'
      BY <1>0, <2>2, <2>4, <2>5, <2>8 DEF Trait
    <3>2. QED BY <2>1, <2>8, <3>1 DEF PhaseInv, ShouldBeFrozen, args
  <2>9. QED BY <2>5, <2>6, <2>7, <2>8
<1>3. CASE FreezeAfterBurnin
  <2>1. pc = "freeze" /\ i = n_burnin /\ i > 0 /\ UNCHANGED <<args, i>>
    BY <1>3 DEF FreezeAfterBurnin, FreezeBank, PhaseInv
  <2>2. \A t \in Trait : items[t].frozen <=> t < k
    BY <1>0, <2>1 DEF PhaseInv, ShouldBeFrozen
  <2>3. ~items[k].frozen BY <1>0, <2>2 DEF Trait
  <2>4. k' = IF k = K THEN 1 ELSE k + 1 BY <1>3 DEF FreezeAfterBurnin
  <2>5. /\ \A t \in Trait : t # k => items'[t] = items[t]
        /\ \/ pc' = (IF k = K THEN "gamma" ELSE "items") /\ items'[k].frozen
           \/ pc' = "threw"
    BY <1>3, <2>3, FreezeBankEffect DEF FreezeAfterBurnin, AfterItems
  <2>6. CASE pc' = "threw" BY <2>1, <2>6 DEF PhaseInv, NTotal, args
  <2>7. CASE k = K /\ pc' = "gamma" /\ items'[k].frozen
    <3>1. \A t \in Trait : items'[t].frozen
      BY <1>0, <2>2, <2>5, <2>7 DEF Trait
    <3>2. QED BY <1>0, <2>1, <2>7, <3>1 DEF PhaseInv, ShouldBeFrozen, args
  <2>8. CASE k # K /\ pc' = "items" /\ items'[k].frozen
    <3>1. \A t \in Trait : items'[t].frozen <=> t < k'
      BY <1>0, <2>2, <2>4, <2>5, <2>8 DEF Trait
    <3>2. QED BY <1>0, <2>1, <2>8, <3>1 DEF PhaseInv, ShouldBeFrozen, args
  <2>9. QED BY <2>5, <2>6, <2>7, <2>8
<1>4. CASE UpdateItems
  <2>1. pc = "items" /\ i > 0 /\ UNCHANGED <<args, i>>
    BY <1>4 DEF UpdateItems, PhaseInv
  <2>2. \A t \in Trait :
          items[t].frozen <=> i > n_burnin \/ (i = n_burnin /\ t < k)
    BY <1>0, <2>1 DEF PhaseInv, ShouldBeFrozen
  <2>3. \A t \in Trait : items'[t].frozen = items[t].frozen
    BY <1>4, ItemStepEffect
  <2>4. LeaveBank BY <1>4, ItemStepEffect
  <2>5. CASE i = n_burnin
    BY <1>0, <2>1, <2>2, <2>3, <2>4, <2>5
       DEF LeaveBank, FreezesAfter, PhaseInv, ShouldBeFrozen, args
  <2>6. CASE i # n_burnin
    <3>1. \A t \in Trait : items'[t].frozen <=> i > n_burnin
      BY <1>0, <2>2, <2>3, <2>6
    <3>2. pc' \in {"items", "gamma"}
      BY <2>4, <2>6 DEF LeaveBank, FreezesAfter, AfterItems
    <3>3. QED
      BY <1>0, <2>1, <2>6, <3>1, <3>2 DEF PhaseInv, ShouldBeFrozen, args
  <2>7. QED BY <2>5, <2>6
<1>5. CASE BeginScan
  BY <1>0, <1>5 DEF BeginScan, PhaseInv, ShouldBeFrozen, args
<1>6. CASE Finish
  BY <1>0, <1>6 DEF Finish, PhaseInv, ShouldBeFrozen, args, NTotal
<1>7. CASE \E col \in [Person -> Values] : MoveTheta(col)
  BY <1>0, <1>7 DEF MoveTheta, SamplingPhase, PhaseInv, ShouldBeFrozen, args
<1>8. CASE JointInstall
  BY <1>0, <1>8 DEF JointInstall, PhaseInv, ShouldBeFrozen, args
<1>9. CASE RevertRefused
  BY <1>0, <1>9 DEF RevertRefused, PhaseInv, ShouldBeFrozen, args
<1>10. CASE ForceResponse \/ ForceAssignment
  BY <1>0, <1>10
     DEF ForceResponse, ForceAssignment, ForceInstall, PhaseInv, ShouldBeFrozen, args
<1>11. CASE NextTrait
  BY <1>0, <1>11 DEF NextTrait, PhaseInv, ShouldBeFrozen, args
<1>12. CASE AdaptThetaSd
  BY <1>0, <1>12 DEF AdaptThetaSd, PhaseInv, ShouldBeFrozen, args
<1>13. CASE RunResponse
  BY <1>0, <1>13 DEF RunResponse, RunModel, PhaseInv, ShouldBeFrozen, args
<1>14. CASE RunAssignment
  <2>1. /\ pc = "runAssignment" /\ pc' = "items" /\ k' = 1
        /\ UNCHANGED <<args, i, items>>
    BY <1>14 DEF RunAssignment, RunModel
  <2>2. \A t \in Trait : ~(t < k')
    BY <2>1 DEF Trait
  <2>3. QED BY <1>0, <2>1, <2>2 DEF PhaseInv, ShouldBeFrozen, args
<1>15. CASE UpdateGamma
  BY <1>0, <1>15 DEF UpdateGamma, SamplingPhase, PhaseInv, ShouldBeFrozen, args
<1>16. CASE StoreDraw
  BY <1>0, <1>16 DEF StoreDraw, PhaseInv, ShouldBeFrozen, args
<1>17. QED
  BY <1>1, <1>2, <1>3, <1>4, <1>5, <1>6, <1>7, <1>8, <1>9, <1>10, <1>11, <1>12,
     <1>13, <1>14, <1>15, <1>16 DEF Next

LEMMA PhaseInvHolds == Spec => [](TypeInv /\ PhaseInv)
<1>1. Init => PhaseInv
  <2> SUFFICES ASSUME Init PROVE PhaseInv
    OBVIOUS
  <2>1. /\ i = 0 /\ k = 1 /\ n_burnin \in Nat
        /\ pc = IF n_burnin = 0 THEN "freeze0" ELSE "scan"
    BY ChainAssumption DEF Init
  <2>2. \A t \in Trait : ~items[t].frozen /\ ~(t < k)
    BY <2>1 DEF Init, Created, Trait
  <2>3. QED
    BY <2>1, <2>2 DEF PhaseInv, ShouldBeFrozen, BetweenScans, Sweeping
<1>2. QED BY <1>1, PhaseNext, TypeInvHolds, PTL DEF Spec

\* No n_burnin and warmup_start make the loop call a sampler out of order.
THEOREM LifecycleNeverStops == Spec => []LifecycleLegal
<1>1. PhaseInv => LifecycleLegal BY DEF PhaseInv, LifecycleLegal
<1>2. QED BY <1>1, PhaseInvHolds, PTL

\* While sampling, an install that changes a column never changes a forest.
THEOREM SamplingRejects == Spec => RejectedNotCollapsed
<1>1. TypeInv /\ PhaseInv /\ [Next]_vars =>
        [i > n_burnin /\ x' # x => tree' = tree]_vars
  <2> SUFFICES ASSUME TypeInv, PhaseInv, Next, i > n_burnin, x' # x
               PROVE  tree' = tree
    OBVIOUS
  <2>1. i \in Nat /\ n_burnin \in Nat BY DEF TypeInv, TypeOK, NTotal
  <2>2. pc \notin {"setResponse", "setAssignment"}
    BY <2>1 DEF PhaseInv
  <2>3. ~ForceResponse /\ ~ForceAssignment
    BY <2>2 DEF ForceResponse, ForceAssignment, ForceInstall
  <2>4. JointInstall
    BY <2>3
       DEF Next, FreezeAtStart, FreezeBank, BeginScan, Finish, MoveTheta,
           RevertRefused, NextTrait, AdaptThetaSd, RunResponse, RunAssignment,
           RunModel, UpdateItems, FreezeAfterBurnin, UpdateGamma, StoreDraw, bart
  <2>5. QED BY <2>4 DEF JointInstall
<1>2. QED BY <1>1, PhaseInvHolds, PTL DEF Spec, RejectedNotCollapsed


-------------------------------------------------------------------------------
(***************************************************************************)
(* Counting transitions.  Each bank has been visited once per scan, and    *)
(* was adapted on every visit after warmup_start up to the last burn-in.   *)
(***************************************************************************)

\* The last scan in which the item loop has been at bank t.
Visited(t) ==
  IF \/ pc \in BetweenScans \cup {"freeze0"}
     \/ pc = "items" /\ t < k
     \/ pc = "freeze" /\ t <= k
    THEN i ELSE i - 1

\* The transitions a bank adapts over in scans 1 .. v.
Transitions(v) ==
  LET b == IF v < n_burnin THEN v ELSE n_burnin
  IN  IF b > warmup_start THEN b - warmup_start ELSE 0

WarmupInv ==
  /\ n_burnin > 0 => warmup_start < n_burnin
  /\ pc # "threw" =>
       \A t \in Trait : items[t].warmup_iter = Transitions(Visited(t))
  /\ AdaptedBeforeFrozen

\* Steps that are not at the banks leave every count as it was.
LEMMA WarmupElsewhere ==
  ASSUME TypeInv, WarmupInv, UNCHANGED <<items, args>>, pc # "threw",
         \A t \in Trait : Transitions(Visited(t))' = Transitions(Visited(t))
  PROVE  WarmupInv'
<1>1. AdaptedBeforeFrozen' BY DEF WarmupInv, AdaptedBeforeFrozen, args
<1>2. QED BY <1>1 DEF WarmupInv, args

LEMMA WarmupNext ==
  TypeInv /\ PhaseInv /\ WarmupInv /\ [Next]_vars => WarmupInv'
<1> SUFFICES ASSUME TypeInv, PhaseInv, WarmupInv, [Next]_vars PROVE WarmupInv'
  OBVIOUS
<1> USE DEF BetweenScans
<1>0. /\ n_burnin \in Nat /\ warmup_start \in Nat /\ i \in Nat /\ k \in 1 .. K
      /\ K \in Nat \ {0} /\ Trait = 1 .. K
      /\ items \in [Trait -> Sampler]
  BY ChainAssumption DEF TypeInv, TypeOK, NTotal, Trait
<1>1. CASE UNCHANGED vars
  BY <1>1 DEF vars, args, WarmupInv, AdaptedBeforeFrozen, Transitions, Visited
<1>2. CASE FreezeAtStart
  <2>1. pc = "freeze0" /\ i = 0 /\ n_burnin = 0 /\ UNCHANGED <<args, i>>
    BY <1>2 DEF FreezeAtStart, FreezeBank, PhaseInv
  <2>2. \A t \in Trait : items[t].frozen <=> t < k
    BY <2>1 DEF PhaseInv, ShouldBeFrozen
  <2>3. ~items[k].frozen BY <1>0, <2>2
  <2>4. /\ \A t \in Trait : items'[t].warmup_iter = items[t].warmup_iter
        /\ pc' \in {"scan", "freeze0", "threw"}
    BY <1>2, <2>3, FreezeBankEffect DEF FreezeAtStart
  <2>5. pc' # "threw" => \A t \in Trait : Visited(t)' = Visited(t)
    BY <2>1, <2>4 DEF Visited
  <2>6. QED
    BY <1>0, <2>1, <2>4, <2>5 DEF WarmupInv, AdaptedBeforeFrozen, Transitions, args
<1>3. CASE FreezeAfterBurnin
  <2>1. pc = "freeze" /\ i = n_burnin /\ i > 0 /\ UNCHANGED <<args, i>>
    BY <1>3 DEF FreezeAfterBurnin, FreezeBank, PhaseInv
  <2>2. \A t \in Trait : items[t].frozen <=> t < k
    BY <1>0, <2>1 DEF PhaseInv, ShouldBeFrozen
  <2>3. ~items[k].frozen BY <1>0, <2>2
  <2>4. /\ \A t \in Trait : t # k => items'[t] = items[t]
        /\ items'[k].warmup_iter = items[k].warmup_iter
        /\ pc' \in {"gamma", "items", "threw"}
        /\ pc' = "gamma" => k = K
        /\ k' = IF k = K THEN 1 ELSE k + 1
        /\ pc' = "items" => k # K
    BY <1>3, <2>3, FreezeBankEffect DEF FreezeAfterBurnin, AfterItems
  <2>5. \A t \in Trait : items'[t].warmup_iter = items[t].warmup_iter
    BY <2>4
  <2>6. pc' # "threw" => \A t \in Trait : Visited(t)' = Visited(t)
    BY <1>0, <2>1, <2>4 DEF Visited
  <2>7. \A t \in Trait : t <= k => items[t].warmup_iter = n_burnin - warmup_start
    BY <1>0, <2>1 DEF WarmupInv, Transitions, Visited
  <2>8. AdaptedBeforeFrozen'
    <3>1. \A t \in Trait : items'[t].frozen => t <= k
      BY <1>0, <2>2, <2>4
    <3>2. n_burnin' = n_burnin /\ warmup_start' = warmup_start BY <2>1 DEF args
    <3>3. warmup_start < n_burnin BY <2>1 DEF WarmupInv
    <3>4. QED
      BY <1>0, <2>5, <2>7, <3>1, <3>2, <3>3 DEF AdaptedBeforeFrozen
  <2>9. QED BY <2>1, <2>5, <2>6, <2>8 DEF WarmupInv, Transitions, args
<1>4. CASE UpdateItems
  <2>1. pc = "items" /\ i > 0 /\ UNCHANGED <<args, i>>
    BY <1>4 DEF UpdateItems, PhaseInv
  <2>2. /\ LeaveBank
        /\ \A t \in Trait : items'[t].frozen = items[t].frozen
        /\ \A t \in Trait : t # k => items'[t] = items[t]
        /\ items'[k].warmup_iter =
             IF i <= n_burnin /\ i > warmup_start THEN items[k].warmup_iter + 1
                                                  ELSE items[k].warmup_iter
    BY <1>4, ItemStepEffect
  <2>3. \A t \in Trait : Visited(t)' = IF t <= k THEN i ELSE i - 1
    BY <1>0, <2>1, <2>2 DEF LeaveBank, AfterItems, Visited
  <2>4. \A t \in Trait : Visited(t) = IF t < k THEN i ELSE i - 1
    BY <1>0, <2>1 DEF Visited
  <2>5. items'[k].warmup_iter = Transitions(i)
    <3>1. items[k].warmup_iter = Transitions(i - 1)
      BY <1>0, <2>1, <2>4 DEF WarmupInv
    <3>2. QED BY <1>0, <2>1, <2>2, <3>1 DEF WarmupInv, Transitions
  <2>6. \A t \in Trait : items'[t].warmup_iter = Transitions(Visited(t))'
    <3>1. \A v : Transitions(v)' = Transitions(v) BY <2>1 DEF Transitions, args
    <3>2. ASSUME NEW t \in Trait, t # k PROVE Visited(t)' = Visited(t)
      BY <1>0, <2>3, <2>4, <3>2
    <3>3. ASSUME NEW t \in Trait
          PROVE  items'[t].warmup_iter = Transitions(Visited(t)')
      <4>1. CASE t = k BY <1>0, <2>3, <2>5, <4>1
      <4>2. CASE t # k BY <2>1, <2>2, <3>2, <4>2 DEF WarmupInv
      <4>3. QED BY <4>1, <4>2
    <3>4. QED BY <2>1, <3>3 DEF Transitions, args
  <2>7. AdaptedBeforeFrozen'
    <3>1. ASSUME NEW t \in Trait, items[t].frozen
          PROVE  items'[t].warmup_iter = items[t].warmup_iter
      <4>1. t < k \/ i > n_burnin
        BY <1>0, <2>1, <3>1 DEF PhaseInv, ShouldBeFrozen
      <4>2. QED BY <1>0, <2>2, <4>1
    <3>2. QED BY <2>1, <2>2, <3>1 DEF WarmupInv, AdaptedBeforeFrozen, args
  <2>8. QED BY <2>1, <2>6, <2>7 DEF WarmupInv, args
<1>5. CASE UpdateGamma
  <2>1. /\ pc = "gamma" /\ pc' \in {"scan", "store"}
        /\ UNCHANGED <<args, i, items>>
    BY <1>5 DEF UpdateGamma
  <2>2. QED BY <2>1, WarmupElsewhere DEF Transitions, Visited, args
<1>6. CASE BeginScan
  <2>1. pc = "scan" /\ pc' = "ratio" /\ i' = i + 1 /\ UNCHANGED <<args, items>>
    BY <1>6 DEF BeginScan
  <2>2. QED BY <1>0, <2>1, WarmupElsewhere DEF Transitions, Visited, args
<1>7. CASE RunAssignment
  <2>1. /\ pc = "runAssignment" /\ pc' = "items" /\ k' = 1
        /\ UNCHANGED <<args, i, items>>
    BY <1>7 DEF RunAssignment, RunModel
  <2>2. \A t \in Trait : ~(t < k') BY <1>0, <2>1
  <2>3. QED BY <2>1, <2>2, WarmupElsewhere DEF Transitions, Visited, args
<1>8. CASE Finish \/ StoreDraw
  <2>1. /\ pc \in BetweenScans /\ pc' \in BetweenScans
        /\ UNCHANGED <<args, i, items>>
    BY <1>8 DEF Finish, StoreDraw
  <2>2. QED BY <2>1, WarmupElsewhere DEF Transitions, Visited, args
<1>9. CASE /\ pc \in Labels \ (BetweenScans \cup {"items", "freeze", "freeze0", "threw"})
           /\ pc' \in Labels \ (BetweenScans \cup {"items", "freeze", "freeze0", "threw"})
           /\ UNCHANGED <<args, i, items>>
  BY <1>9, WarmupElsewhere DEF Transitions, Visited, args
<1>10. QED
  BY <1>1, <1>2, <1>3, <1>4, <1>5, <1>6, <1>7, <1>8, <1>9
     DEF Next, MoveTheta, JointInstall, RevertRefused, ForceResponse,
         ForceAssignment, ForceInstall, NextTrait, AdaptThetaSd, RunResponse,
         RunModel, Labels

LEMMA WarmupInvHolds == Spec => []WarmupInv
<1>1. Init => WarmupInv
  <2> SUFFICES ASSUME Init PROVE WarmupInv
    OBVIOUS
  <2>1. n_burnin \in Nat /\ i = 0 BY ChainAssumption DEF Init
  <2>2. PICK w \in WarmupChoices : warmup_start = ClampWarmupStart(w, n_burnin)
    BY DEF Init
  <2>3. w \in Nat BY <2>2, ChainAssumption
  <2>4. n_burnin > 0 => n_burnin \div 2 < n_burnin BY <2>1
  <2>5. n_burnin > 0 => warmup_start < n_burnin
    BY <2>1, <2>2, <2>3, <2>4 DEF ClampWarmupStart
  <2>6. warmup_start \in Nat
    BY <2>1, <2>2, <2>3 DEF ClampWarmupStart
  <2>7. \A t \in Trait : items[t].warmup_iter = 0 /\ ~items[t].frozen
    BY DEF Init, Created
  <2>8. \A t \in Trait : Visited(t) = 0
    BY <2>1 DEF Init, Visited, BetweenScans
  <2>9. Transitions(0) = 0 BY <2>1, <2>6 DEF Transitions
  <2>10. AdaptedBeforeFrozen BY <2>7 DEF AdaptedBeforeFrozen
  <2>11. QED BY <2>5, <2>7, <2>8, <2>9, <2>10 DEF WarmupInv
<1>2. QED BY <1>1, WarmupNext, PhaseInvHolds, PTL DEF Spec

\* With a burn-in, a frozen bank was adapted over every scan after warmup_start.
THEOREM FrozenBanksAreAdapted == Spec => []AdaptedBeforeFrozen
<1>1. WarmupInv => AdaptedBeforeFrozen BY DEF WarmupInv
<1>2. QED BY <1>1, WarmupInvHolds, PTL

-------------------------------------------------------------------------------
(***************************************************************************)
(* Rows.  How many there are is a function of where the loop is, and when  *)
(* one is stored everything it is made from was computed at its theta.     *)
(***************************************************************************)

Stored ==
  IF i <= n_burnin THEN 0
  ELSE IF pc \in {"scan", "done"} THEN i - n_burnin ELSE i - 1 - n_burnin

RowIsCoherent(d) ==
  /\ rows[d].scan = n_burnin + d
  /\ rows[d].fit = Model
  /\ rows[d].ab = Trait
  /\ HasCovariates => rows[d].gamma = Trait
  /\ rows[d].frozen = Trait

RowsInv ==
  /\ Len(rows) = Stored
  /\ \A d \in 1 .. Len(rows) : RowIsCoherent(d)
  /\ pc \in {"freeze0", "scan", "ratio", "items", "freeze", "gamma", "store"} =>
       fit = Model
  /\ pc = "runAssignment" => "response" \in fit
  /\ pc = "items" /\ i > n_burnin => \A t \in Trait : t < k => t \in ab
  /\ pc \in {"gamma", "store"} /\ i > n_burnin => ab = Trait
  /\ pc = "store" /\ HasCovariates => gamma = Trait

LEMMA RowsNext ==
  TypeInv /\ PhaseInv /\ ColumnsInv /\ RowsInv /\ [Next]_vars => RowsInv'
<1> SUFFICES ASSUME TypeInv, PhaseInv, ColumnsInv, RowsInv, [Next]_vars
             PROVE  RowsInv'
  OBVIOUS
<1>0. /\ n_burnin \in Nat /\ n_sampling \in Nat /\ i \in Nat /\ k \in 1 .. K
      /\ K \in Nat \ {0} /\ Trait = 1 .. K
      /\ rows \in Seq(Row) /\ fit \subseteq Model /\ ab \subseteq Trait
  BY ChainAssumption DEF TypeInv, TypeOK, NTotal, Trait
<1>1. CASE UNCHANGED vars
  BY <1>1 DEF vars, args, RowsInv, RowIsCoherent, Stored
<1>2. ASSUME UNCHANGED <<rows, n_burnin>>
      PROVE  \A d \in 1 .. Len(rows') : RowIsCoherent(d)'
  BY <1>2 DEF RowsInv, RowIsCoherent
<1>3. CASE FreezeAtStart
  <2>1. /\ pc = "freeze0" /\ pc' \in {"scan", "freeze0", "threw", "stopped"} /\ i = 0
        /\ UNCHANGED <<args, i, rows, fit>>
    BY <1>3 DEF FreezeAtStart, FreezeBank, PhaseInv
  <2>2. QED BY <1>0, <1>2, <2>1 DEF RowsInv, Stored, args
<1>4. CASE FreezeAfterBurnin
  <2>1. /\ pc = "freeze" /\ pc' \in {"items", "gamma", "threw", "stopped"}
        /\ i = n_burnin /\ UNCHANGED <<args, i, rows, fit>>
    BY <1>4 DEF FreezeAfterBurnin, FreezeBank, AfterItems, PhaseInv
  <2>2. QED BY <1>0, <1>2, <2>1 DEF RowsInv, Stored, args
<1>5. CASE BeginScan
  BY <1>0, <1>2, <1>5 DEF BeginScan, RowsInv, Stored, args
<1>6. CASE Finish
  BY <1>0, <1>2, <1>6 DEF Finish, RowsInv, Stored, args
<1>7. CASE \E col \in [Person -> Values] : MoveTheta(col)
  BY <1>0, <1>2, <1>7 DEF MoveTheta, RowsInv, Stored, args
<1>8. CASE JointInstall \/ RevertRefused
  BY <1>0, <1>2, <1>8 DEF JointInstall, RevertRefused, RowsInv, Stored, args
<1>9. CASE ForceResponse \/ ForceAssignment
  BY <1>0, <1>2, <1>9
     DEF ForceResponse, ForceAssignment, ForceInstall, RowsInv, Stored, args
<1>10. CASE NextTrait
  BY <1>0, <1>2, <1>10 DEF NextTrait, RowsInv, Stored, args
<1>11. CASE AdaptThetaSd
  BY <1>0, <1>2, <1>11 DEF AdaptThetaSd, RowsInv, Stored, args
<1>12. CASE RunResponse
  <2>1. /\ pc = "runResponse" /\ pc' = "runAssignment"
        /\ UNCHANGED <<args, i, rows>>
        /\ fit' = IF x["response"] = theta THEN fit \cup {"response"}
                                           ELSE fit \ {"response"}
    BY <1>12 DEF RunResponse, RunModel
  <2>2. x["response"] = theta
    BY <2>1 DEF ColumnsInv, Installing, Sweeping, Model
  <2>3. QED BY <1>0, <1>2, <2>1, <2>2 DEF RowsInv, Stored, args
<1>13. CASE RunAssignment
  <2>1. /\ pc = "runAssignment" /\ pc' = "items" /\ k' = 1
        /\ UNCHANGED <<args, i, rows>>
        /\ fit' = IF x["assignment"] = theta THEN fit \cup {"assignment"}
                                             ELSE fit \ {"assignment"}
    BY <1>13 DEF RunAssignment, RunModel
  <2>2. x["assignment"] = theta
    BY <2>1 DEF ColumnsInv, Installing, Sweeping, Model
  <2>3. fit' = Model BY <1>0, <2>1, <2>2 DEF RowsInv, Model
  <2>4. \A t \in Trait : ~(t < k') BY <1>0, <2>1
  <2>5. QED BY <1>0, <1>2, <2>1, <2>3, <2>4 DEF RowsInv, Stored, args
<1>14. CASE UpdateItems
  <2>1. pc = "items" /\ UNCHANGED <<args, i, rows, fit>>
    BY <1>14 DEF UpdateItems
  <2>2. LeaveBank /\ ab \subseteq ab' /\ (SamplingPhase(i) => k \in ab')
    BY <1>14, ItemStepEffect
  <2>3. ab' \subseteq Trait
    BY <1>0, <1>14 DEF UpdateItems, ItemDraw, ItemWarmup, ItemHold, ItemStop
  <2>4. i > n_burnin => \A t \in Trait : t <= k => t \in ab'
    BY <1>0, <2>1, <2>2 DEF RowsInv, SamplingPhase
  <2>5. CASE i > n_burnin
    <3>1. \/ k = K /\ pc' = "gamma"
          \/ k # K /\ pc' = "items" /\ k' = k + 1
      BY <1>0, <2>2, <2>5 DEF LeaveBank, FreezesAfter, AfterItems
    <3>2. pc' = "items" => \A t \in Trait : t < k' => t \in ab'
      BY <1>0, <2>4, <2>5, <3>1
    <3>3. pc' = "gamma" => ab' = Trait
      <4>1. pc' = "gamma" => \A t \in Trait : t \in ab'
        BY <1>0, <2>4, <2>5, <3>1
      <4>2. QED BY <2>3, <4>1
    <3>4. QED
      BY <1>0, <1>2, <2>1, <3>1, <3>2, <3>3 DEF RowsInv, Stored, args
  <2>6. CASE ~(i > n_burnin)
    <3>1. pc' \in {"freeze", "items", "gamma"}
      BY <2>2 DEF LeaveBank, AfterItems
    <3>2. QED BY <1>0, <1>2, <2>1, <2>6, <3>1 DEF RowsInv, Stored, args
  <2>7. QED BY <2>5, <2>6
<1>15. CASE UpdateGamma
  BY <1>0, <1>2, <1>15 DEF UpdateGamma, SamplingPhase, RowsInv, Stored, args
<1>16. CASE StoreDraw
  <2>1. /\ pc = "store" /\ pc' = "scan" /\ i > n_burnin
        /\ rows' = Append(rows, NewRow) /\ UNCHANGED <<args, i, fit>>
    BY <1>16 DEF StoreDraw, PhaseInv
  <2>2. /\ Len(rows) = i - 1 - n_burnin /\ fit = Model /\ ab = Trait
        /\ HasCovariates => gamma = Trait
    BY <1>0, <2>1 DEF RowsInv, Stored
  <2>3. \A t \in Trait : items[t].frozen
    BY <1>0, <2>1 DEF PhaseInv, ShouldBeFrozen, BetweenScans
  <2>4. NewRow = [scan |-> i, fit |-> Model, ab |-> Trait, gamma |-> gamma,
                  frozen |-> Trait]
    BY <2>2, <2>3 DEF NewRow
  <2>5. /\ Len(rows') = Len(rows) + 1
        /\ rows'[Len(rows) + 1] = NewRow
        /\ \A d \in 1 .. Len(rows) : rows'[d] = rows[d]
    BY <1>0, <2>1
  <2>6. ASSUME NEW d \in 1 .. Len(rows') PROVE RowIsCoherent(d)'
    <3>1. CASE d \in 1 .. Len(rows)
      BY <2>1, <2>5, <3>1 DEF RowsInv, RowIsCoherent, args
    <3>2. CASE d = Len(rows) + 1
      <4>1. /\ rows'[d].scan = i /\ rows'[d].fit = Model /\ rows'[d].ab = Trait
            /\ rows'[d].gamma = gamma /\ rows'[d].frozen = Trait
        BY <2>4, <2>5, <3>2
      <4>2. n_burnin' = n_burnin /\ i = n_burnin + d
        BY <1>0, <2>1, <2>2, <3>2 DEF args
      <4>3. QED BY <2>2, <4>1, <4>2 DEF RowIsCoherent
    <3>3. QED BY <1>0, <2>2, <2>5, <3>1, <3>2
  <2>7. QED BY <1>0, <2>1, <2>2, <2>5, <2>6 DEF RowsInv, Stored, args
<1>17. QED
  BY <1>1, <1>3, <1>4, <1>5, <1>6, <1>7, <1>8, <1>9, <1>10, <1>11, <1>12, <1>13,
     <1>14, <1>15, <1>16 DEF Next

LEMMA RowsInvHolds == Spec => []RowsInv
<1>1. Init => RowsInv
  <2> SUFFICES ASSUME Init PROVE RowsInv
    OBVIOUS
  <2>1. /\ n_burnin \in Nat /\ i = 0 /\ rows = << >> /\ fit = Model
        /\ pc \in {"freeze0", "scan"}
    BY ChainAssumption DEF Init
  <2>2. Len(rows) = 0 /\ Stored = 0 BY <2>1 DEF Stored
  <2>3. QED BY <2>1, <2>2 DEF RowsInv
<1>2. QED BY <1>1, RowsNext, PhaseInvHolds, ColumnsInvHolds, PTL DEF Spec

\* Every stored row is the coherent state of its own scan, in order.
THEOREM StoredRowsCoherent == Spec => []RowsCoherent
<1>1. TypeInv /\ RowsInv => RowsCoherent
  <2> SUFFICES ASSUME TypeInv, RowsInv PROVE RowsCoherent
    OBVIOUS
  <2>1. Len(rows) <= n_sampling
    BY DEF TypeInv, TypeOK, NTotal, RowsInv, Stored
  <2>2. QED BY <2>1 DEF RowsInv, RowIsCoherent, RowsCoherent
<1>2. QED BY <1>1, RowsInvHolds, PhaseInvHolds, PTL

\* No acceptance ratio reads a fit that is not of the present theta and trees.
THEOREM RatioReadsFreshFits == Spec => []RatioFresh
<1>1. RowsInv => RatioFresh BY DEF RowsInv, RatioFresh
<1>2. QED BY <1>1, RowsInvHolds, PTL

-------------------------------------------------------------------------------
(***************************************************************************)
(* One kernel.  The proposal SD and the banks' tuning together are fixed   *)
(* at a usable value before the first row and never move after it.         *)
(***************************************************************************)

UsableChainKernel == Nat \X [Trait -> {w \in Kernel : Validates(w)}]

FixedKernel == IF AllFrozen THEN ChainKernel ELSE None

\* When every bank is frozen the chain's kernel is one that may be used.
LEMMA FrozenIsUsable ==
  TypeInv /\ AllFrozen => ChainKernel \in UsableChainKernel
<1> SUFFICES ASSUME TypeInv, AllFrozen
             PROVE  ChainKernel \in UsableChainKernel
  OBVIOUS
<1>1. ASSUME NEW t \in Trait
      PROVE  items[t].kernel \in {w \in Kernel : Validates(w)}
  <2>1. GoodSampler(items[t]) /\ items[t].frozen
    BY DEF TypeInv, AllFrozen
  <2>2. items[t].kernel \in Kernel /\ Validates(items[t].kernel)
    BY <2>1 DEF GoodSampler, OneEngine, ReportsKernel, Sampler, IsKernel
  <2>3. QED BY <2>2
<1>2. theta_sd \in Nat BY DEF TypeInv, TypeOK, NTotal
<1>3. QED BY <1>1, <1>2 DEF ChainKernel, UsableChainKernel

\* A pair of a proposal SD and kernels is not the value that stands for none.
LEMMA UsableIsSome == ASSUME NEW q \in UsableChainKernel PROVE q # None
BY ChainAssumption DEF UsableChainKernel

\* What a step may do to the abstract state.
LEMMA KernelStep ==
  ASSUME TypeInv, TypeInv', PhaseInv, [Next]_vars
  PROVE  \/ FixedKernel' = FixedKernel /\ Len(rows') = Len(rows)
         \/ /\ FixedKernel = None /\ FixedKernel' \in UsableChainKernel
            /\ Len(rows') = Len(rows)
         \/ /\ FixedKernel # None /\ FixedKernel' = FixedKernel
            /\ Len(rows') = Len(rows) + 1
<1>0. /\ n_burnin \in Nat /\ i \in Nat /\ k \in Trait /\ Trait = 1 .. K
      /\ rows \in Seq(Row)
  BY DEF TypeInv, TypeOK, NTotal, Trait
<1>1. CASE UNCHANGED <<theta_sd, items, rows>>
  BY <1>1 DEF FixedKernel, AllFrozen, ChainKernel
<1>2. CASE FreezeAtStart \/ FreezeAfterBurnin
  <2>1. UNCHANGED <<theta_sd, rows>>
    BY <1>2 DEF FreezeAtStart, FreezeAfterBurnin, FreezeBank
  <2>2. pc = "freeze0" \/ (pc = "freeze" /\ i = n_burnin)
    BY <1>2 DEF FreezeAtStart, FreezeAfterBurnin, FreezeBank, PhaseInv
  <2>3. ~items[k].frozen
    BY <1>0, <2>2 DEF PhaseInv, ShouldBeFrozen, BetweenScans
  <2>4. FixedKernel = None BY <1>0, <2>3 DEF FixedKernel, AllFrozen
  <2>5. CASE AllFrozen'
    <3>1. TypeInv' /\ AllFrozen' => (ChainKernel \in UsableChainKernel)'
      BY FrozenIsUsable, PTL
    <3>2. QED
      BY <2>1, <2>4, <2>5, <3>1 DEF FixedKernel, UsableChainKernel
  <2>6. CASE ~AllFrozen'
    BY <2>1, <2>4, <2>6 DEF FixedKernel
  <2>7. QED BY <2>5, <2>6
<1>3. CASE UpdateItems
  <2>1. UNCHANGED <<theta_sd, rows>> BY <1>3 DEF UpdateItems
  <2>2. \A t \in Trait : /\ items'[t].frozen = items[t].frozen
                         /\ items'[t].kernel = items[t].kernel
    BY <1>3, ItemStepEffect
  <2>3. QED BY <2>1, <2>2 DEF FixedKernel, AllFrozen, ChainKernel
<1>4. CASE AdaptThetaSd
  <2>1. pc = "adapt" /\ UNCHANGED <<items, rows>> BY <1>4 DEF AdaptThetaSd
  <2>2. CASE SamplingPhase(i)
    BY <1>1, <1>4, <2>1, <2>2 DEF AdaptThetaSd
  <2>3. CASE ~SamplingPhase(i)
    <3>1. ~items[k].frozen
      BY <1>0, <2>1, <2>3
         DEF PhaseInv, ShouldBeFrozen, BetweenScans, SamplingPhase
    <3>2. ~AllFrozen /\ ~AllFrozen'
      BY <1>0, <2>1, <3>1 DEF AllFrozen
    <3>3. QED BY <2>1, <3>2 DEF FixedKernel
  <2>4. QED BY <2>2, <2>3
<1>5. CASE StoreDraw
  <2>1. /\ pc = "store" /\ i > n_burnin
        /\ rows' = Append(rows, NewRow) /\ UNCHANGED <<theta_sd, items>>
    BY <1>5 DEF StoreDraw, PhaseInv
  <2>2. AllFrozen
    BY <1>0, <2>1 DEF AllFrozen, PhaseInv, ShouldBeFrozen, BetweenScans
  <2>3. FixedKernel # None
    BY <2>2, FrozenIsUsable, UsableIsSome DEF FixedKernel
  <2>4. FixedKernel' = FixedKernel
    BY <2>1 DEF FixedKernel, AllFrozen, ChainKernel
  <2>5. Len(rows') = Len(rows) + 1 BY <1>0, <2>1
  <2>6. QED BY <2>3, <2>4, <2>5
<1>6. QED
  BY <1>1, <1>2, <1>3, <1>4, <1>5
     DEF Next, vars, BeginScan, Finish, MoveTheta, JointInstall, RevertRefused,
         ForceResponse, ForceAssignment, ForceInstall, NextTrait, RunResponse,
         RunAssignment, RunModel, UpdateGamma

\* The chain implements the two-phase promise its draws are summarised under.
THEOREM ChainIsTwoPhase == Spec => ImplementsTwoPhase
<1>1. Init => TwoPhase!Init
  <2> SUFFICES ASSUME Init PROVE TwoPhase!Init
    OBVIOUS
  <2>1. 1 \in Trait BY ChainAssumption DEF Trait
  <2>2. ~AllFrozen BY <2>1 DEF Init, Created, AllFrozen
  <2>3. QED BY <2>2 DEF Init, TwoPhase!Init
<1>2. TypeInv /\ TypeInv' /\ PhaseInv /\ [Next]_vars =>
        [TwoPhase!Next]_<<IF AllFrozen THEN ChainKernel ELSE None, Len(rows)>>
  BY KernelStep
     DEF TwoPhase!Next, TwoPhase!Fix, TwoPhase!Keep, FixedKernel, UsableChainKernel
<1>3. QED
  BY <1>1, <1>2, PhaseInvHolds, PTL
     DEF Spec, ImplementsTwoPhase, TwoPhase!Spec, TwoPhase!absVars
===============================================================================
