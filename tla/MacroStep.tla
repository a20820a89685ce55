------------------------------- MODULE MacroStep ------------------------------
(***************************************************************************)
(* One macro step of WALNUTS (macro_step() and reversible() in             *)
(* walnuts/walnuts.hpp): simulate a fixed time with ever more, ever        *)
(* smaller leapfrog steps until the Hamiltonian is conserved, and refuse   *)
(* the result when the same search, started at the other end and run       *)
(* backward in time, would have settled for fewer.  That refusal is what   *)
(* makes the orbit a chain that can be walked both ways.                   *)
(*                                                                         *)
(* The simulation is given by Flow: Flow[h][d][n][s] is where n leapfrog   *)
(* steps in direction d lead from phase point s in system h.  What is      *)
(* assumed of it is what holds of leapfrog in exact arithmetic.            *)
(***************************************************************************)
EXTENDS Integers, Directions

CONSTANTS
  System,        \* the targets, metrics and step sizes to look at
  State,         \* phase points: position and momentum
  Flip,          \* momentum reversal
  Flow,          \* leapfrog
  Energy,        \* joint log density, or NaN
  NaN,
  MaxError,      \* max_error
  MaxHalvings,   \* max_step_halvings
  MinMicro,      \* min_micro_steps
  Micro          \* the numbers of micro steps the search goes through

Level == 0 .. MaxHalvings

Sizes == {Micro[l] : l \in Level}

ASSUME SearchAssumption ==
  /\ MaxError \in Nat
  /\ MaxHalvings \in Nat \ {0} /\ MinMicro \in Nat \ {0}
  /\ Micro \in [Level -> Nat]
  /\ Micro[0] = MinMicro
  /\ \A l \in 1 .. MaxHalvings : Micro[l] = 2 * Micro[l - 1]

\* Leapfrog is reversed by a momentum flip, a negative step is a step seen with
\* the momentum flipped, and the energy does not see the flip.
ASSUME LeapfrogAssumption ==
  /\ NaN \notin Int
  /\ Flip \in [State -> State]
  /\ \A s \in State : Flip[Flip[s]] = s
  /\ Flow \in [System -> [Direction -> [Sizes -> [State -> State]]]]
  /\ Energy \in [System -> [State -> Int \cup {NaN}]]
  /\ \A h \in System, s \in State : Energy[h][Flip[s]] = Energy[h][s]
  /\ \A h \in System, d \in Direction, n \in Sizes, s \in State :
       /\ Flow[h][d][n][Flip[Flow[h][d][n][s]]] = Flip[s]
       /\ Flow[h][Opposite(d)][n][s] = Flip[Flow[h][d][n][Flip[s]]]

VARIABLES
  system,
  direction,
  span_end,      \* the end of the span to be extended
  search,         \* in which loop the search is, or how it ended
  num_steps,  \* micro steps of the present attempt
  halvings,
  next,       \* theta_next, rho_next
  rev_steps,  \* num_steps inside reversible()
  observed    \* calls of the adaptation handler

vars == <<system, direction, span_end, search, num_steps, halvings, next, rev_steps,
          observed>>

fixed == <<system, direction, span_end>>

Run(n, s) == Flow[system][direction][n][s]

Distance(a, b) == IF a < b THEN b - a ELSE a - b

\* A comparison with NaN is false.
Conserves(s, t) ==
  LET e == Energy[system][s]  f == Energy[system][t]
  IN  e # NaN /\ f # NaN /\ Distance(e, f) <= MaxError

Init ==
  /\ system \in System /\ direction \in Direction /\ span_end \in State
  /\ search = "try"
  /\ num_steps = MinMicro /\ halvings = 0
  /\ next = span_end
  /\ rev_steps = MinMicro
  /\ observed = 0

Attempt ==
  /\ search = "try"
  /\ halvings < MaxHalvings
  /\ next' = Run(num_steps, span_end)
  /\ observed' = IF num_steps = MinMicro THEN observed + 1 ELSE observed
  /\ IF Conserves(span_end, next')
       THEN /\ rev_steps' = num_steps
            /\ search' = IF num_steps = 1 THEN "accepted" ELSE "reverse"
            /\ UNCHANGED <<num_steps, halvings>>
       ELSE /\ num_steps' = 2 * num_steps
            /\ halvings' = halvings + 1
            /\ UNCHANGED <<search, rev_steps>>
  /\ UNCHANGED fixed

Exhaust ==
  /\ search = "try"
  /\ halvings = MaxHalvings
  /\ search' = "exhausted"
  /\ UNCHANGED <<fixed, num_steps, halvings, next, rev_steps, observed>>

ReverseSearchShort == \* mutant: the fewest micro steps are not tried
  /\ search = "reverse"
  /\ IF rev_steps > 2 * MinMicro
       THEN /\ rev_steps' = rev_steps \div 2
            /\ search' = IF Conserves(Flip[next], Run(rev_steps', Flip[next]))
                       THEN "rejected" ELSE "reverse"
       ELSE /\ search' = "accepted"
            /\ UNCHANGED rev_steps
  /\ UNCHANGED <<fixed, num_steps, halvings, next, observed>>

ReverseSearchSame == \* mutant: tested before it is halved
  /\ search = "reverse"
  /\ IF rev_steps >= 2 * MinMicro
       THEN /\ rev_steps' = rev_steps \div 2
            /\ search' = IF Conserves(Flip[next], Run(rev_steps, Flip[next]))
                       THEN "rejected" ELSE "reverse"
       ELSE /\ search' = "accepted"
            /\ UNCHANGED rev_steps
  /\ UNCHANGED <<fixed, num_steps, halvings, next, observed>>

\* One round of the loop in reversible().
ReverseSearch ==
  /\ search = "reverse"
  /\ IF rev_steps >= 2 * MinMicro
       THEN /\ rev_steps' = rev_steps \div 2
            /\ search' = IF Conserves(Flip[next], Run(rev_steps', Flip[next]))
                       THEN "rejected" ELSE "reverse"
       ELSE /\ search' = "accepted"
            /\ UNCHANGED rev_steps
  /\ UNCHANGED <<fixed, num_steps, halvings, next, observed>>

Next == Attempt \/ Exhaust \/ ReverseSearch

Spec == Init /\ [][Next]_vars

-------------------------------------------------------------------------------

TypeOK ==
  /\ system \in System /\ direction \in Direction
  /\ span_end \in State /\ next \in State
  /\ search \in {"try", "reverse", "accepted", "rejected", "exhausted"}
  /\ num_steps \in Sizes /\ rev_steps \in Sizes
  /\ halvings \in Level
  /\ observed \in 0 .. 1

\* The number of micro steps the search from s in direction d settles for is
\* that of level l.
Settles(d, s, l) ==
  LET Arrives(k) == Flow[system][d][Micro[k]][s]
  IN  /\ l \in 0 .. MaxHalvings - 1
      /\ Conserves(s, Arrives(l))
      /\ \A k \in 0 .. l - 1 : ~Conserves(s, Arrives(k))

\* An edge of the orbit: from either end the search, run towards the other,
\* settles for the same number of micro steps and arrives there.
Edge(d, s, t) ==
  \E l \in 0 .. MaxHalvings - 1 :
    /\ Settles(d, s, l) /\ t = Flow[system][d][Micro[l]][s]
    /\ Settles(Opposite(d), t, l) /\ s = Flow[system][Opposite(d)][Micro[l]][t]

\* A macro step that is accepted can be taken back: it is an edge, and since an
\* edge has no direction the other end would accept it too ("true if the number
\* of micro steps provided is the one chosen from the input").
AcceptedIsEdge == search = "accepted" => Edge(direction, span_end, next)

\* And none is refused without need: when it fails there was no edge to take.
RefusedIsNoEdge ==
  search \in {"rejected", "exhausted"} =>
    \A t \in State : ~Edge(direction, span_end, t)
===============================================================================
