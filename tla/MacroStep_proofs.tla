---------------------------- MODULE MacroStep_proofs ---------------------------
(***************************************************************************)
(* A macro step is accepted exactly when it is an edge of the orbit, for   *)
(* every system, tolerance and number of halvings.                         *)
(***************************************************************************)
EXTENDS MacroStep, TLAPS

\* How the two searches read at level l.
Forth(l) == Conserves(span_end, Run(Micro[l], span_end))
Back(l)  == Conserves(Flip[next], Run(Micro[l], Flip[next]))

\* The numbers of micro steps reached so far: only the first is below twice the
\* least one.
LevelsGrow ==
  \A l \in 0 .. halvings :
    Micro[l] >= MinMicro /\ (l >= 1 => Micro[l] >= 2 * MinMicro)

\* The search tries the levels in order and stops at the first that conserves.
SearchedForth ==
  /\ num_steps = Micro[halvings]
  /\ \A l \in 0 .. halvings - 1 : ~Forth(l)
  /\ search = "exhausted" => halvings = MaxHalvings
  /\ search \in {"reverse", "accepted", "rejected"} =>
       /\ halvings < MaxHalvings
       /\ next = Run(num_steps, span_end)
       /\ Forth(halvings)

\* The way back tries the levels below in the opposite order.
SearchedBack ==
  /\ search = "reverse" =>
       \E r \in 0 .. halvings :
         /\ rev_steps = Micro[r]
         /\ \A l \in r .. halvings - 1 : ~Back(l)
  /\ search = "accepted" => \A l \in 0 .. halvings - 1 : ~Back(l)
  /\ search = "rejected" => \E l \in 0 .. halvings - 1 : Back(l)

\* The handler has not been told of this macro step before its first attempt.
ToldOnce == search = "try" /\ halvings = 0 => observed = 0

IInv == TypeOK /\ ToldOnce /\ LevelsGrow /\ SearchedForth /\ SearchedBack

-------------------------------------------------------------------------------

\* The constants of the search.
LEMMA SearchTypes ==
  /\ MinMicro \in Nat /\ MinMicro >= 1
  /\ MaxHalvings \in Nat /\ MaxHalvings >= 1
  /\ Micro[0] = MinMicro /\ 0 \in Level
  /\ \A l \in Level : l \in Nat /\ Micro[l] \in Nat
  /\ \A l \in Level : l >= 1 => l - 1 \in Level /\ Micro[l] = 2 * Micro[l - 1]
BY SearchAssumption DEF Level

\* A leapfrog trajectory stays among the phase points.
LEMMA RunType ==
  ASSUME TypeOK, NEW l \in Level, NEW s \in State
  PROVE  /\ Micro[l] \in Sizes /\ Run(Micro[l], s) \in State
         /\ Flip[s] \in State
<1>1. Micro[l] \in Sizes
  BY DEF Sizes
<1>2. Flow[system][direction] \in [Sizes -> [State -> State]]
  BY LeapfrogAssumption DEF TypeOK
<1>3. Run(Micro[l], s) \in State
  BY <1>1, <1>2 DEF Run
<1>4. Flip[s] \in State
  BY LeapfrogAssumption
<1> QED BY <1>1, <1>3, <1>4

\* The two ends of a trajectory conserve or not whichever is called first.
LEMMA ConservesSymmetric ==
  ASSUME TypeOK, NEW s \in State, NEW t \in State
  PROVE  Conserves(s, t) <=> Conserves(t, s)
<1>1. /\ Energy[system][s] \in Int \cup {NaN}
      /\ Energy[system][t] \in Int \cup {NaN}
  BY LeapfrogAssumption DEF TypeOK
<1> QED BY <1>1, SearchAssumption DEF Conserves, Distance

\* The search from the other end, run towards this one, conserves at a level
\* exactly when reversible() finds that it does.
LEMMA TurnedAround ==
  ASSUME TypeOK, NEW l \in Level
  PROVE  Conserves(next, Flow[system][Opposite(direction)][Micro[l]][next])
           <=> Back(l)
<1> DEFINE back == Flow[system][direction][Micro[l]][Flip[next]]
<1>1. /\ Micro[l] \in Sizes /\ Flip[next] \in State /\ back \in State
      /\ next \in State
  BY RunType DEF TypeOK, Run
<1>2. Flow[system][Opposite(direction)][Micro[l]][next] = Flip[back]
  BY <1>1, LeapfrogAssumption, ZenonT(60) DEF TypeOK
<1>3. /\ Energy[system][Flip[back]] = Energy[system][back]
      /\ Energy[system][Flip[next]] = Energy[system][next]
  BY <1>1, LeapfrogAssumption DEF TypeOK
<1> HIDE DEF back
<1> QED BY <1>2, <1>3 DEF Conserves, Back, Run, back

\* A trajectory is retraced from its end.
LEMMA Retraced ==
  ASSUME TypeOK, NEW l \in Level, next = Run(Micro[l], span_end)
  PROVE  span_end = Flow[system][Opposite(direction)][Micro[l]][next]
<1>1. Micro[l] \in Sizes /\ Flip[next] \in State /\ next \in State
  BY RunType DEF TypeOK
<1>2. Flow[system][direction][Micro[l]][Flip[next]] = Flip[span_end]
  BY <1>1, LeapfrogAssumption, ZenonT(60) DEF TypeOK, Run
<1>3. Flow[system][Opposite(direction)][Micro[l]][next]
        = Flip[Flow[system][direction][Micro[l]][Flip[next]]]
  BY <1>1, LeapfrogAssumption DEF TypeOK
<1>4. Flip[Flip[span_end]] = span_end
  BY LeapfrogAssumption DEF TypeOK
<1> QED BY <1>2, <1>3, <1>4

-------------------------------------------------------------------------------

\* The invariant holds when macro_step() is entered.
LEMMA InitInv == Init => IInv
<1> SUFFICES ASSUME Init PROVE IInv
  OBVIOUS
<1>1. /\ 0 \in Level /\ 0 .. 0 = {0} /\ 0 .. 0 - 1 = {}
      /\ MinMicro = Micro[0] /\ MinMicro \in Nat
  BY SearchAssumption DEF Level
<1>2. TypeOK
  BY <1>1, SearchAssumption DEF Init, TypeOK, Sizes
<1>3. LevelsGrow
  BY <1>1 DEF Init, LevelsGrow
<1>4. ToldOnce
  BY DEF Init, ToldOnce
<1>5. SearchedForth /\ SearchedBack
  <2>1. /\ num_steps = Micro[halvings] /\ search = "try"
        /\ \A l \in 0 .. halvings - 1 : FALSE
    BY <1>1 DEF Init
  <2> QED BY <2>1 DEF SearchedForth, SearchedBack
<1> QED BY <1>2, <1>3, <1>4, <1>5 DEF IInv

\* One attempt at conserving the Hamiltonian preserves the invariant.
LEMMA AttemptInv == IInv /\ Attempt => IInv'
<1> SUFFICES ASSUME IInv, Attempt PROVE IInv'
  OBVIOUS
<1> USE DEF fixed
<1>1. /\ halvings \in 0 .. MaxHalvings - 1 /\ halvings \in Level
      /\ halvings + 1 \in Level /\ halvings \in Nat
      /\ num_steps = Micro[halvings] /\ span_end \in State
  BY SearchTypes DEF IInv, TypeOK, SearchedForth, Attempt, Level
<1>2. next' = Run(num_steps, span_end) /\ next' \in State
  BY <1>1, RunType DEF Attempt, IInv
<1>3. observed' \in 0 .. 1
  <2>1. halvings >= 1 => num_steps # MinMicro
    <3>1. halvings \in 0 .. halvings
      BY <1>1
    <3> QED BY <1>1, <3>1, SearchTypes DEF IInv, LevelsGrow
  <2>2. num_steps = MinMicro => observed = 0
    BY <1>1, <2>1 DEF Attempt, IInv, ToldOnce
  <2> QED BY <2>2 DEF Attempt, IInv, TypeOK
<1>4. CASE Conserves(span_end, next')
  <2>1. /\ rev_steps' = num_steps
        /\ search' = (IF num_steps = 1 THEN "accepted" ELSE "reverse")
        /\ UNCHANGED <<num_steps, halvings, system, direction, span_end>>
    BY <1>4 DEF Attempt
  <2>2. TypeOK'
    BY <1>2, <1>3, <2>1 DEF TypeOK, IInv, Attempt
  <2>3. LevelsGrow'
    BY <2>1 DEF IInv, LevelsGrow
  <2>4. SearchedForth'
    <3>1. \A l : Forth(l)' <=> Forth(l)
      BY <2>1 DEF Forth, Run, Conserves
    <3>2. Forth(halvings)
      BY <1>1, <1>2, <1>4 DEF Forth
    <3>3. next' = Run(num_steps, span_end)'
      BY <1>2, <2>1 DEF Run
    <3>4. halvings < MaxHalvings /\ search' # "exhausted"
      BY <1>1, <2>1, SearchTypes
    <3> HIDE DEF Forth, Run
    <3> QED BY <1>1, <2>1, <3>1, <3>2, <3>3, <3>4 DEF IInv, SearchedForth
  <2>5. num_steps = 1 => halvings = 0
    <3>1. halvings \in 0 .. halvings
      BY <1>1, SearchTypes
    <3>2. halvings >= 1 => num_steps >= 2 * MinMicro
      BY <1>1, <3>1 DEF IInv, LevelsGrow
    <3> QED BY <1>1, <3>2, SearchTypes
  <2>6. ASSUME num_steps = 1 PROVE SearchedBack'
    <3>1. search' = "accepted" /\ \A l \in 0 .. halvings' - 1 : FALSE
      BY <2>1, <2>5, <2>6
    <3> QED BY <3>1 DEF SearchedBack
  <2>7. ASSUME num_steps # 1 PROVE SearchedBack'
    <3>1. search' = "reverse" /\ halvings' \in 0 .. halvings'
      BY <1>1, <2>1, <2>7, SearchTypes
    <3>2. /\ rev_steps' = Micro[halvings']
          /\ \A l \in halvings' .. halvings' - 1 : FALSE
      BY <1>1, <2>1, SearchTypes
    <3> QED BY <3>1, <3>2 DEF SearchedBack
  <2>8. SearchedBack'
    BY <2>6, <2>7
  <2>9. ToldOnce'
    BY <2>1 DEF ToldOnce
  <2> QED BY <2>2, <2>3, <2>4, <2>8, <2>9 DEF IInv
<1>5. CASE ~Conserves(span_end, next')
  <2>1. /\ num_steps' = 2 * num_steps /\ halvings' = halvings + 1
        /\ search' = "try"
        /\ UNCHANGED <<rev_steps, system, direction, span_end>>
    BY <1>5 DEF Attempt
  <2>2. num_steps' = Micro[halvings'] /\ num_steps' \in Sizes
    <3>1. Micro[halvings + 1] = 2 * Micro[(halvings + 1) - 1]
      BY <1>1, SearchAssumption DEF Level
    <3>2. (halvings + 1) - 1 = halvings
      BY <1>1
    <3> QED BY <1>1, <2>1, <3>1, <3>2 DEF Sizes
  <2>3. TypeOK'
    BY <1>1, <1>2, <1>3, <2>1, <2>2 DEF TypeOK, IInv
  <2>4. LevelsGrow'
    <3>1. Micro[halvings + 1] >= 2 * MinMicro
      BY <1>1, <2>1, <2>2, SearchAssumption DEF IInv, LevelsGrow, Level
    <3>2. MinMicro \in Nat /\ Micro[halvings + 1] \in Nat
      BY <1>1, SearchAssumption
    <3>3. \A l \in 0 .. halvings + 1 : l \in 0 .. halvings \/ l = halvings + 1
      BY <1>1
    <3> QED BY <1>1, <2>1, <3>1, <3>2, <3>3 DEF IInv, LevelsGrow
  <2>5. SearchedForth'
    <3>1. \A l \in 0 .. (halvings + 1) - 1 : l \in 0 .. halvings - 1 \/ l = halvings
      BY <1>1
    <3>2. ~Forth(halvings)
      BY <1>1, <1>2, <1>5 DEF Forth
    <3>3. \A l \in 0 .. (halvings + 1) - 1 : ~Forth(l)
      BY <3>1, <3>2 DEF IInv, SearchedForth
    <3>4. \A l : Forth(l)' <=> Forth(l)
      BY <2>1 DEF Forth, Run, Conserves
    <3> QED BY <2>1, <2>2, <3>3, <3>4 DEF SearchedForth
  <2>6. SearchedBack'
    BY <2>1 DEF SearchedBack
  <2>7. ToldOnce'
    BY <1>1, <2>1 DEF ToldOnce
  <2> QED BY <2>3, <2>4, <2>5, <2>6, <2>7 DEF IInv
<1> QED BY <1>4, <1>5

\* Giving up preserves the invariant.
LEMMA ExhaustInv == IInv /\ Exhaust => IInv'
<1> SUFFICES ASSUME IInv, Exhaust PROVE IInv'
  OBVIOUS
<1>1. search' = "exhausted" /\ halvings = MaxHalvings
      /\ UNCHANGED <<system, direction, span_end, num_steps, halvings, next,
                     rev_steps, observed>>
  BY DEF Exhaust, fixed
<1>2. \A l : Forth(l)' <=> Forth(l)
  BY <1>1 DEF Forth, Run, Conserves
<1>3. TypeOK' /\ ToldOnce' /\ LevelsGrow' /\ SearchedBack'
  BY <1>1 DEF IInv, TypeOK, ToldOnce, LevelsGrow, SearchedBack
<1>4. SearchedForth'
  BY <1>1, <1>2 DEF IInv, SearchedForth
<1> QED BY <1>3, <1>4 DEF IInv

\* One round of reversible() preserves the invariant.
LEMMA ReverseSearchInv == IInv /\ ReverseSearch => IInv'
<1> SUFFICES ASSUME IInv, ReverseSearch PROVE IInv'
  OBVIOUS
<1>1. search = "reverse" /\ search' \in {"reverse", "accepted", "rejected"}
      /\ UNCHANGED <<system, direction, span_end, num_steps, halvings, next,
                     observed>>
  BY DEF ReverseSearch, fixed
<1>2. /\ \A l : Forth(l)' <=> Forth(l)
      /\ \A l : Back(l)' <=> Back(l)
  BY <1>1 DEF Forth, Back, Run, Conserves
<1>3. LevelsGrow' /\ ToldOnce'
  BY <1>1 DEF IInv, LevelsGrow, ToldOnce
<1>4. SearchedForth'
  <2>1. Run(num_steps, span_end)' = Run(num_steps, span_end)
    BY <1>1 DEF Run
  <2> HIDE DEF Forth, Run
  <2> QED BY <1>1, <1>2, <2>1 DEF IInv, SearchedForth
<1>5. PICK r \in 0 .. halvings :
        rev_steps = Micro[r] /\ \A l \in r .. halvings - 1 : ~Back(l)
  BY <1>1 DEF IInv, SearchedBack
<1>6. halvings \in Level /\ r \in Level /\ MinMicro \in Nat /\ rev_steps \in Nat
  BY <1>5, SearchTypes DEF IInv, TypeOK, Level
<1>7. CASE rev_steps >= 2 * MinMicro
  <2>1. r >= 1
    BY <1>5, <1>6, <1>7, SearchTypes
  <2>2. r - 1 \in 0 .. halvings - 1 /\ r - 1 \in Level
    BY <1>6, <2>1, SearchTypes
  <2>3. Micro[r] = 2 * Micro[r - 1] /\ Micro[r - 1] \in Nat
    BY <1>6, <2>1, <2>2, SearchTypes
  <2>4. rev_steps' = Micro[r - 1] /\ rev_steps' \in Sizes
    <3>1. rev_steps' = rev_steps \div 2
      BY <1>7 DEF ReverseSearch
    <3>2. (2 * Micro[r - 1]) \div 2 = Micro[r - 1]
      BY <2>3
    <3> QED BY <1>5, <2>2, <2>3, <3>1, <3>2 DEF Sizes
  <2>5. search' = IF Back(r - 1) THEN "rejected" ELSE "reverse"
    BY <1>7, <2>4 DEF ReverseSearch, Back
  <2>6. TypeOK'
    BY <1>1, <2>4 DEF IInv, TypeOK
  <2>7. SearchedBack'
    <3>1. CASE Back(r - 1)
      BY <1>1, <1>2, <2>2, <2>5, <3>1 DEF SearchedBack
    <3>2. CASE ~Back(r - 1)
      <4>1. \A l \in r - 1 .. halvings - 1 : l = r - 1 \/ l \in r .. halvings - 1
        BY <1>6
      <4>2. \A l \in r - 1 .. halvings - 1 : ~Back(l)
        BY <1>5, <3>2, <4>1
      <4>3. r - 1 \in 0 .. halvings
        BY <1>6, <2>2 DEF Level
      <4> QED BY <1>1, <1>2, <2>4, <2>5, <3>2, <4>2, <4>3 DEF SearchedBack
    <3> QED BY <3>1, <3>2
  <2> QED BY <1>3, <1>4, <2>6, <2>7 DEF IInv
<1>8. CASE ~(rev_steps >= 2 * MinMicro)
  <2>1. search' = "accepted" /\ UNCHANGED rev_steps
    BY <1>8 DEF ReverseSearch
  <2>2. r = 0
    <3>1. r >= 1 => Micro[r] >= 2 * MinMicro
      BY DEF IInv, LevelsGrow
    <3> QED BY <1>5, <1>6, <1>8, <3>1, SearchTypes
  <2>3. TypeOK'
    BY <1>1, <2>1 DEF IInv, TypeOK
  <2>4. SearchedBack'
    BY <1>1, <1>2, <1>5, <2>1, <2>2 DEF SearchedBack
  <2> QED BY <1>3, <1>4, <2>3, <2>4 DEF IInv
<1> QED BY <1>7, <1>8

\* The invariant holds all along.
THEOREM SearchInv == Spec => []IInv
<1>1. IInv /\ [Next]_vars => IInv'
  <2> SUFFICES ASSUME IInv, [Next]_vars PROVE IInv'
    OBVIOUS
  <2>1. CASE UNCHANGED vars
    <3>1. UNCHANGED <<system, direction, span_end, search, num_steps, halvings, next,
                      rev_steps, observed>>
      BY <2>1 DEF vars
    <3>2. /\ \A l : Forth(l)' <=> Forth(l)
          /\ \A l : Back(l)' <=> Back(l)
      BY <3>1 DEF Forth, Back, Run, Conserves
    <3>3. TypeOK' /\ ToldOnce' /\ LevelsGrow'
      BY <3>1 DEF IInv, TypeOK, ToldOnce, LevelsGrow
    <3>4. SearchedForth'
      <4>1. Run(num_steps, span_end)' = Run(num_steps, span_end)
        BY <3>1 DEF Run
      <4> HIDE DEF Forth, Run
      <4> QED BY <3>1, <3>2, <4>1 DEF IInv, SearchedForth
    <3>5. SearchedBack'
      BY <3>1, <3>2 DEF IInv, SearchedBack
    <3> QED BY <3>3, <3>4, <3>5 DEF IInv
  <2> QED BY <2>1, AttemptInv, ExhaustInv, ReverseSearchInv DEF Next
<1> QED BY <1>1, InitInv, PTL DEF Spec

-------------------------------------------------------------------------------

\* What the search settles for is what Settles says.
LEMMA ForthSettles ==
  ASSUME IInv, search \in {"reverse", "accepted", "rejected"},
         NEW m \in 0 .. MaxHalvings - 1, Settles(direction, span_end, m)
  PROVE  m = halvings
<1>1. halvings \in 0 .. MaxHalvings - 1
  BY SearchAssumption DEF IInv, TypeOK, SearchedForth, Level
<1>2. Forth(halvings) /\ Forth(m)
  BY DEF IInv, SearchedForth, Settles, Forth, Run
<1>3. ~(m < halvings)
  BY <1>1, <1>2, SearchAssumption DEF IInv, SearchedForth
<1>4. ~(halvings < m)
  BY <1>1, <1>2, SearchAssumption DEF Settles, Forth, Run
<1> QED BY <1>1, <1>3, <1>4, SearchAssumption

\* The state of the search keeps its type: among other things, the number of
\* micro steps is always one the loop header can produce.
THEOREM SearchTypeCorrect == Spec => []TypeOK
<1>1. IInv => TypeOK
  BY SMTT(60) DEF IInv
<1> QED BY <1>1, SearchInv, PTL

\* An accepted macro step can be taken back: the search from its end, run
\* backward, settles for as many micro steps and arrives where this one began.
THEOREM AcceptedStepsReverse == Spec => []AcceptedIsEdge
<1>1. IInv => AcceptedIsEdge
  <2> SUFFICES ASSUME IInv, search = "accepted"
               PROVE  Edge(direction, span_end, next)
    BY DEF AcceptedIsEdge
  <2> DEFINE other == Opposite(direction)
  <2>1. /\ TypeOK /\ halvings \in 0 .. MaxHalvings - 1
        /\ halvings \in Level /\ span_end \in State /\ next \in State
    BY SearchAssumption DEF IInv, TypeOK, SearchedForth, Level
  <2>2. next = Run(Micro[halvings], span_end) /\ Forth(halvings)
    BY DEF IInv, SearchedForth
  <2>3. Settles(direction, span_end, halvings)
    BY <2>1, <2>2 DEF IInv, SearchedForth, Settles, Forth, Run
  <2>4. span_end = Flow[system][other][Micro[halvings]][next]
    BY <2>1, <2>2, Retraced, SMTT(60)
  <2>5. Conserves(next, Flow[system][other][Micro[halvings]][next])
    BY <2>1, <2>2, <2>4, ConservesSymmetric DEF Forth
  <2>6. ASSUME NEW k \in 0 .. halvings - 1
        PROVE  ~Conserves(next, Flow[system][other][Micro[k]][next])
    <3>1. k \in Level
      BY <2>1, SearchAssumption DEF Level
    <3>2. ~Back(k)
      BY DEF IInv, SearchedBack
    <3> QED BY <2>1, <3>1, <3>2, TurnedAround
  <2>7. Settles(other, next, halvings)
    BY <2>1, <2>5, <2>6 DEF Settles
  <2> QED BY <2>1, <2>2, <2>3, <2>4, <2>7 DEF Edge, Run
<1> QED BY <1>1, SearchInv, PTL

\* A macro step fails only where there was no edge: reversible() refuses
\* nothing that could have been taken back, and the search gives up only when no
\* number of micro steps it may use conserves the Hamiltonian.
THEOREM RefusedStepsHaveNoEdge == Spec => []RefusedIsNoEdge
<1>1. IInv => RefusedIsNoEdge
  <2> SUFFICES ASSUME IInv, search \in {"rejected", "exhausted"},
                      NEW t \in State, Edge(direction, span_end, t)
               PROVE  FALSE
    BY SMTT(60) DEF RefusedIsNoEdge
  <2>1. PICK m \in 0 .. MaxHalvings - 1 :
          /\ Settles(direction, span_end, m)
          /\ t = Flow[system][direction][Micro[m]][span_end]
          /\ Settles(Opposite(direction), t, m)
    BY ZenonT(60) DEF Edge
  <2>2. CASE search = "exhausted"
    <3>1. ~Forth(m)
      BY <2>2, SMTT(60) DEF IInv, SearchedForth
    <3> QED BY <2>1, <3>1 DEF Settles, Forth, Run
  <2>3. CASE search = "rejected"
    <3>1. m = halvings
      BY <2>1, <2>3, ForthSettles
    <3>2. t = next
      BY <2>1, <2>3, <3>1 DEF IInv, SearchedForth, Run
    <3>3. PICK l \in 0 .. halvings - 1 : Back(l)
      BY <2>3 DEF IInv, SearchedBack
    <3>4. TypeOK /\ l \in Level
      BY <2>1, <3>1, <3>3, SearchAssumption DEF IInv, Level
    <3>5. Conserves(next, Flow[system][Opposite(direction)][Micro[l]][next])
      BY <3>3, <3>4, TurnedAround
    <3> QED BY <2>1, <3>1, <3>2, <3>3, <3>5 DEF Settles
  <2> QED BY <2>2, <2>3
<1> QED BY <1>1, SearchInv, PTL
===============================================================================
