--------------------------------- MODULE Orbit ---------------------------------
(***************************************************************************)
(* One WALNUTS transition (transition_w() in walnuts/walnuts.hpp): double  *)
(* the orbit forward or backward in time until it turns, cannot be         *)
(* extended or is long enough, and pick one of its states.                 *)
(*                                                                         *)
(* The phase points that macro steps can reach from the initial one lie on *)
(* a line (MacroStep: an accepted step can be taken back), so a state is a *)
(* number, a span is an interval, and the data are three tables: which     *)
(* neighbours a macro step links, which intervals have turned, and the     *)
(* density of every state.  The chances of the picks are carried along as  *)
(* exact fractions: chance[k] / den is the probability of k.               *)
(***************************************************************************)
EXTENDS Integers, FiniteSets, FiniteSetsExt, Directions

CONSTANTS
  Line,         \* the states reachable by macro steps, an interval
  Linkings,     \* sets of states with an accepted macro step to their successor
  Turnings,     \* sets of intervals <<first, last>> that have turned
  Weightings,   \* densities
  MaxDepth,     \* max_depth
  NoSpan        \* std::nullopt

SpanType ==
  [bk : Int, fw : Int, total : Nat,
   chance : UNION {[a .. b -> Nat] : a, b \in Line}, den : Nat]

\* A linked state has a successor, and std::nullopt is no span.
ASSUME OrbitAssumption ==
  /\ Line \subseteq Int /\ MaxDepth \in Nat \ {0}
  /\ Linkings \subseteq SUBSET {i \in Line : i + 1 \in Line}
  /\ Turnings \subseteq SUBSET (Line \X Line)
  /\ Weightings \subseteq [Line -> Nat \ {0}]
  /\ NoSpan \notin SpanType

VARIABLES
  link, turned, weight,   \* the target, as the transition sees it
  start,                  \* the initial point
  span,                   \* span_accum
  depth,
  pc

orbitVars == <<link, turned, weight, start, span, depth, pc>>

target == <<link, turned, weight>>

\* from_initial_point(): a span of one state, which is the selected one.
Point(i) ==
  [bk |-> i, fw |-> i, total |-> weight[i], chance |-> [k \in {i} |-> 1],
   den |-> 1]

Members(s) == s.bk .. s.fw

\* order_forward_backward()
Earlier(d, s, t) == IF d = "forward" THEN s ELSE t
Later(d, s, t)   == IF d = "forward" THEN t ELSE s

\* uturn() looks at the two ends of the two spans together.
UTurn(d, s, t) == <<Earlier(d, s, t).bk, Later(d, s, t).fw>> \in turned

UpdateMetropolis(update, old, new) == \* mutant: Metropolis also inside a new span
  <<Min({new.total, old.total}), old.total>>

\* The probability that combine() selects from the new span.
UpdateChance(update, old, new) ==
  IF update = "Metropolis"
    THEN <<Min({new.total, old.total}), old.total>>
    ELSE <<new.total, old.total + new.total>>

\* combine()
Combine(update, d, old, new) ==
  LET p == UpdateChance(update, old, new)
      Picked(k) == IF k \in Members(new)
                     THEN new.chance[k] * old.den * p[1]
                     ELSE old.chance[k] * new.den * (p[2] - p[1])
      bk == Earlier(d, old, new).bk
      fw == Later(d, old, new).fw
  IN  [bk |-> bk, fw |-> fw, total |-> old.total + new.total,
       chance |-> [k \in bk .. fw |-> Picked(k)],
       den |-> old.den * new.den * p[2]]

\* build_leaf(): a macro step from the end e of a span.
Leaf(d, e) ==
  IF d = "forward" THEN IF e \in link     THEN Point(e + 1) ELSE NoSpan
                   ELSE IF e - 1 \in link THEN Point(e - 1) ELSE NoSpan

End(d, s) == IF d = "forward" THEN s.fw ELSE s.bk

BuildSpanUnchecked(d, n, e) == \* mutant: no U-turn test inside the new span
  LET Build[m \in 0 .. n] == [x \in Line |->
        IF m = 0 THEN Leaf(d, x)
        ELSE LET s == Build[m - 1][x]
                 t == Build[m - 1][End(d, s)]
             IN  IF s = NoSpan THEN NoSpan
                 ELSE IF t = NoSpan THEN NoSpan
                 ELSE Combine("Barker", d, s, t)]
  IN  Build[n][e]

\* build_span(): 2^n states past e, or none if a macro step fails or any
\* sub-span turns.
BuildSpan(d, n, e) ==
  LET Build[m \in 0 .. n] == [x \in Line |->
        IF m = 0 THEN Leaf(d, x)
        ELSE LET s == Build[m - 1][x]
                 t == Build[m - 1][End(d, s)]
             IN  IF s = NoSpan THEN NoSpan
                 ELSE IF t = NoSpan \/ UTurn(d, s, t) THEN NoSpan
                 ELSE Combine("Barker", d, s, t)]
  IN  Build[n][e]

\* expand_in_direction(): the span after doubling number n, and whether it is
\* the last one.
Expanded(d, n, s) ==
  LET new == BuildSpan(d, n - 1, End(d, s))
  IN  IF new = NoSpan
        THEN [span |-> s, stop |-> TRUE]
        ELSE [span |-> Combine("Metropolis", d, s, new),
              stop |-> UTurn(d, s, new)]

OrbitInit ==
  /\ link \in Linkings /\ turned \in Turnings /\ weight \in Weightings
  /\ start \in Line
  /\ span = Point(start)
  /\ depth = 1
  /\ pc = "doubling"

\* One round of the loop in direction d.
ExpandIn(d) ==
  /\ pc = "doubling" /\ depth <= MaxDepth
  /\ LET e == Expanded(d, depth, span)
     IN  /\ span' = e.span
         /\ pc' = IF e.stop THEN "done" ELSE "doubling"
         /\ depth' = IF e.stop THEN depth ELSE depth + 1
  /\ UNCHANGED <<target, start>>

\* The direction is chosen by a fair coin.
Expand == \E d \in Direction : ExpandIn(d)

LongEnough ==
  /\ pc = "doubling" /\ depth > MaxDepth
  /\ pc' = "done"
  /\ UNCHANGED <<target, start, span, depth>>

OrbitNext == Expand \/ LongEnough

OrbitSpec == OrbitInit /\ [][OrbitNext]_orbitVars

-------------------------------------------------------------------------------

\* The directions the coin can choose, and what the transition from k makes of
\* them.
Coins == [1 .. MaxDepth -> Direction]

Replay(k, coins) ==
  LET After[n \in 0 .. MaxDepth] ==
        IF n = 0 THEN [span |-> Point(k), stop |-> FALSE]
        ELSE IF After[n - 1].stop THEN After[n - 1]
        ELSE Expanded(coins[n], n, After[n - 1].span)
  IN  After[MaxDepth].span

SameOrbit(s, t) == s.bk = t.bk /\ s.fw = t.fw

ThisOrbit(k) == {c \in Coins : SameOrbit(Replay(k, c), span)}

\* However the transition ends, every state of its final orbit would have built
\* the same orbit with the same probability ("returning nullopt if there is a
\* U-turn at any point").
OrbitShared ==
  pc = "done" =>
    \A k \in Members(span) :
      Cardinality(ThisOrbit(k)) = Cardinality(ThisOrbit(start))

\* Going from the initial state to another one of the orbit is as likely as
\* coming back, each weighed with its density: the transition leaves the target
\* alone ("the next state in the Markov chain").
DetailedBalance ==
  pc = "done" =>
    \A k \in Members(span) :
      \A c \in ThisOrbit(k) :
        LET back == Replay(k, c)
        IN  weight[start] * span.chance[k] * back.den
              = weight[k] * back.chance[start] * span.den

\* "depth The tree depth used by the transition" stays within "the maximum
\* number of trajectory doublings".
DepthWithinMax == pc = "done" => depth <= MaxDepth
===============================================================================
