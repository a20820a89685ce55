----------------------------- MODULE MCTransition -----------------------------
(***************************************************************************)
(* Transition: the macro step over leapfrog modulo a small prime, for      *)
(* linear and quadratic gradients, potentials that let some trajectories   *)
(* through at once, some after halving and some never, and a position      *)
(* where the density is NaN; the orbit on MCOrbit's lines.                 *)
(***************************************************************************)
EXTENDS Transition, MCOrbit, Leapfrog

MCMicro == [l \in 0 .. MaxHalvings |-> MinMicro * 2 ^ l]

Gradient  == {[q \in Z |-> (a * q * q + b * q) % P] : a \in 0 .. 1, b \in 1 .. 2}
Potential == {[q \in Z |-> IF q = 0 THEN NaN ELSE q],
              [q \in Z |-> (q * q) % P],
              [q \in Z |-> IF q > 2 THEN 4 ELSE 0]}

MCSystem == [grad : Gradient, potential : Potential, step : {1, 2}]

Simulate(h, d, l, s) ==
  MicroSteps(h.grad, Signed(d, Halved(h.step, l)), Micro[l], s)

LevelOf(n) == CHOOSE l \in Level : Micro[l] = n

MCFlow ==
  [h \in System |-> [d \in Direction |->
    [n \in Sizes |-> [s \in State |-> Simulate(h, d, LevelOf(n), s)]]]]

\* An even function of the momentum.
Kinetic(rho) == IF rho \in {1, P - 1} THEN 1 ELSE 0

MCEnergy ==
  [h \in System |-> [s \in State |->
    IF h.potential[s[1]] = NaN THEN NaN
                               ELSE h.potential[s[1]] + Kinetic(s[2])]]
===============================================================================
