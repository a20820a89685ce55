------------------------------- MODULE Leapfrog -------------------------------
(***************************************************************************)
(* The leapfrog integrator of macro_step() and within_tolerance(), in the  *)
(* integers modulo a prime P, where halving is exact and a trajectory can  *)
(* be retraced as it can in exact arithmetic.  A system is a gradient, a   *)
(* potential energy and a macro step size; the mass is 1.                  *)
(***************************************************************************)
EXTENDS Integers

CONSTANT P

Z     == 0 .. P - 1
Phase == Z \X Z     \* position and momentum

Negated(v) == (P - v) % P

Flipped == [s \in Phase |-> <<s[1], Negated(s[2])>>]

Half(v) == (v * ((P + 1) \div 2)) % P

\* Half a kick, a drift, half a kick.
MicroStep(grad, step, s) ==
  LET rho   == s[2] + Half(step) * grad[s[1]]
      theta == (s[1] + step * rho) % P
  IN  <<theta, (rho + Half(step) * grad[theta]) % P>>

MicroSteps(grad, step, n, s) ==
  LET after[k \in 0 .. n] ==
        IF k = 0 THEN s ELSE MicroStep(grad, step, after[k - 1])
  IN  after[n]

\* The step size after the number of micro steps was doubled l times.
Halved(step, l) ==
  LET after[k \in 0 .. l] == IF k = 0 THEN step ELSE Half(after[k - 1])
  IN  after[l]

\* The minus sign of a backward step.
Signed(direction, step) == IF direction = "forward" THEN step ELSE Negated(step)
===============================================================================
