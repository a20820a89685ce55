------------------------------ MODULE Transition ------------------------------
(***************************************************************************)
(* One transition with its first macro step taken in full (transition_w(), *)
(* build_leaf() and macro_step() in walnuts/walnuts.hpp).  The first       *)
(* doubling adds one leaf to the initial point, in the direction the coin  *)
(* shows, and whether there is such a leaf is what the search of MacroStep *)
(* finds.  Of the macro steps further out Orbit's table says which are     *)
(* accepted; it is not looked at before the first has returned.            *)
(***************************************************************************)
EXTENDS MacroStep, Orbit

transitionVars == <<vars, orbitVars>>

TransitionInit ==
  /\ Init
  /\ link = {} /\ turned = {} /\ weight = <<>> /\ start = NoSpan
  /\ span = NoSpan /\ depth = 1 /\ pc = "macro_step"

Searching == pc = "macro_step" /\ Next /\ UNCHANGED orbitVars

\* build_leaf() returns a leaf or std::nullopt; all else goes out of scope.
FirstReturns ==
  /\ pc = "macro_step" /\ search \in {"accepted", "rejected", "exhausted"}
  /\ search' = IF search = "accepted" THEN "leaf" ELSE "nullopt"
  /\ system' = NoSpan /\ span_end' = NoSpan /\ next' = NoSpan
  /\ num_steps' = 0 /\ halvings' = 0 /\ rev_steps' = 0 /\ observed' = 0
  /\ UNCHANGED <<direction, orbitVars>>

locals == <<system, span_end, next, num_steps, halvings, rev_steps, observed>>

\* Any line on which the initial point has a neighbour in this direction exactly
\* if there is a leaf.
FirstPlaced ==
  /\ pc = "macro_step" /\ search \in {"leaf", "nullopt"}
  /\ link' \in Linkings /\ turned' \in Turnings /\ weight' \in Weightings
  /\ start' \in Line
  /\ direction' = direction /\ search' = "returned"
  /\ search = "leaf" <=> Leaf(direction, start)' # NoSpan
  /\ span' = Point(start)' /\ depth' = depth /\ pc' = "doubling"
  /\ UNCHANGED locals

\* The direction was tossed before the search; it is forgotten after its round.
FirstDoubling ==
  /\ depth = 1 /\ ExpandIn(direction)
  /\ direction' = "forward"
  /\ UNCHANGED <<search, locals>>

LaterDoubling == depth > 1 /\ OrbitNext /\ UNCHANGED vars

TransitionNext == Searching \/ FirstReturns \/ FirstPlaced \/ FirstDoubling \/ LaterDoubling

TransitionSpec == TransitionInit /\ [][TransitionNext]_transitionVars
===============================================================================
